---- MODULE Spec2Model ----
(***************************************************************************)
(* Diglett: a reverse tunnel.  An agent next to a private backend opens a  *)
(* connection to the public gateway, logs in, registers one name and then  *)
(* serves public clients multiplexed over that single connection.          *)
(*                                                                         *)
(* The module holds three state machines over one set of variables:        *)
(*   SpecSession  the gateway session up to SERVING (server/mod.rs         *)
(*                handle_agent, lines 77-173) against the shipped agent    *)
(*                (agent/mod.rs login/register) or an arbitrary peer;      *)
(*   SpecServe    the serving phase: gateway accept loop, demux and        *)
(*                downstream pumps, agent loop and upstream pumps;         *)
(*   SpecWire     the bytes of the shared agent channel: frame writers     *)
(*                under the writer mutex, partial writes and task aborts.  *)
(* Each specification leaves the variables of the other two untouched.     *)
(***************************************************************************)
EXTENDS Naturals, Integers, Sequences, FiniteSets, TLC

(***************************************************************************)
(* Program constants                                                       *)
(***************************************************************************)
MAGIC == 1684629356
VERSION == 1
FRAME_HEADER_SIZE == 7
MAX_PAYLOAD_SIZE == 65535

KindOk == 0
KindError == 1
KindRegister == 2
KindFinishRegister == 3
KindPayload == 4
KindClose == 5
KindTerminate == 6
KindLogin == 7

U16 == 65536

\* Display strings of crate::Error (lib.rs) and the literals of handle_agent.
ErrUnexpectedMessage == "received unexpected message"
ErrAuthInvalidToken == "authentication error: invalid token"
ErrAuthCustom == "authentication error: denied"
ErrHookIO == "io error: hook"
TxtOnlyOne == "only one name registration is allowed"
TxtNotAuthorized == "not authorized to use this domain"
TxtMissing == "missing name registration"

(***************************************************************************)
(* Bounds of the model                                                     *)
(***************************************************************************)
\* frames an arbitrary (non-shipped) peer may send in one session
MaxPeerFrames == 3
\* pump tasks writing to the shared channel, frames per writer, payload bytes
NPumps == 2
MaxWireFrames == 1
MaxData == 2
\* public connections accepted, backend connections opened, and the traffic
\* of a serving phase: connections accepted plus chunks read from the public
\* clients and the backends
MaxConns == 2
MaxBackends == 2
MaxTraffic == 3
\* frames a peer that is not the shipped agent writes in SERVING
MaxNoise == 2
\* public connections and backend connections in the runs checked for liveness
LiveConns == 1
LiveBackends == 1
\* agents accepted by one server
MaxSessions == 3
\* messages written on one connection
MaxMsgs == 2
\* order of the group standing for the curve
CurveOrder == 7
\* control exchanges on a connection before it is split
Rounds == 1
\* frames each end writes after its split
MaxEncFrames == 1
\* largest payload of a frame on the encrypted transport
MaxEncPayload == 2
\* Stream values built in one run
MaxStreams == 2
\* pump tasks of the endpoint whose mutexes are followed
LockPumps == 2

Tokens == {"", "fail", "tok"}
Names == {"svc", "other"}
Users == {"unit", "u7"}
ListenPorts == {41001, 41002}
\* source ports of public clients
Ports == {1, 2}

NoToken == "<none>"
NoUser == "<none>"

(***************************************************************************)
(* Messages and frames (wire/mod.rs, wire/frame.rs)                        *)
(***************************************************************************)
MOk == [type |-> "Ok"]
MError(s) == [type |-> "Error", msg |-> s]
MRegister(r, n) == [type |-> "Register", id |-> r, name |-> n]
MFinishRegister == [type |-> "FinishRegister"]
MClose(s) == [type |-> "Close", id |-> s]
MLogin(t) == [type |-> "Login", token |-> t]
MPayload(s, d) == [type |-> "Payload", id |-> s, data |-> d]
MTerminate == [type |-> "Terminate"]

IsControl(m) == m.type \in {"Ok", "Error", "Register", "FinishRegister", "Close", "Login"}

\* A frame as it travels: the header fields and the payload ("" when absent).
Frame(k, i, p) == [kind |-> k, id |-> i, payload |-> p]

\* Connection::control: the frame of a control message.
ControlFrame(ctl) ==
    CASE ctl.type = "Ok" -> Frame(KindOk, 0, "")
      [] ctl.type = "Error" -> Frame(KindError, 0, ctl.msg)
      [] ctl.type = "Register" -> Frame(KindRegister, ctl.id, ctl.name)
      [] ctl.type = "FinishRegister" -> Frame(KindFinishRegister, 0, "")
      [] ctl.type = "Close" -> Frame(KindClose, ctl.id, "")
      [] ctl.type = "Login" -> Frame(KindLogin, 0, ctl.token)

\* Connection::write: the frame of a payload.
PayloadFrame(stream, data) == Frame(KindPayload, stream, data)

\* Kind::try_from
ValidKind(k) == k \in 0..7

\* Connection::read: the message of a received frame (the kind is valid).
FrameMessage(frm) ==
    CASE frm.kind = KindOk -> MOk
      [] frm.kind = KindError -> MError(frm.payload)
      [] frm.kind = KindClose -> MClose(frm.id)
      [] frm.kind = KindRegister -> MRegister(frm.id % U16, frm.payload)
      [] frm.kind = KindFinishRegister -> MFinishRegister
      [] frm.kind = KindTerminate -> MTerminate
      [] frm.kind = KindLogin -> MLogin(frm.payload)
      [] frm.kind = KindPayload -> MPayload(frm.id, frm.payload)

\* Message::ok_or_err
OkOrErr(m) ==
    CASE m.type = "Ok" -> "ok"
      [] m.type = "Error" -> "Remote"
      [] OTHER -> "UnexpectedMessage"

(***************************************************************************)
(* Variables                                                               *)
(***************************************************************************)
VARIABLES
    \* ---- the session up to SERVING ----
    gpc,            \* gateway: position in handle_agent
    gres,           \* gateway: result of handle_agent ("running" until it returns)
    token,          \* gateway: the Login token (None before)
    user,           \* gateway: the User returned by authenticate (None before)
    registrations,  \* gateway: the vec of (id, name)
    bound,          \* gateway: port of the public listener (0: none bound)
    handle,         \* gateway: registration handle: "none" | "held" | "dropped"
    authImpl,       \* which Authenticate implementation the server holds
    authLog,        \* calls of authenticate: <<token, result>>
    authzLog,       \* calls of authorize: <<user, name, result>>
    regLog,         \* calls of Registerer.register: <<name, port, result>>
    unexpected,     \* gateway: messages rejected as unexpected, with the stage
    peer,           \* "agent" (agent/mod.rs) or "rogue" (anything)
    apc,            \* agent: position in negotiate/login/register
    ares,           \* agent: result ("running" | "ok" | error kind)
    atoken, aname,  \* agent: its token and its name
    nsent,          \* number of frames the peer has put on the channel so far
    gsent,          \* every frame the gateway has written to the agent channel
    loopExit,       \* how the registration loop ended: "none" | "finish" | "readerr"
    a2g, g2a,       \* the agent channel: frames in flight, each direction
    link,           \* "up" | "down": the agent's TCP connection
    \* ---- the bytes of the shared agent channel ----
    wlock,          \* the writer mutex: the set of its holders ({} or {w})
    wst,            \* per writer: pc, frames completed, position in the frame
    wire,           \* the bytes the peer has been sent, in order
    \* ---- the serving phase ----
    lpc,            \* gateway accept loop: "select" | "insert" | "clear" | "done"
    dpc,            \* gateway demux: "read" | "write" (Clients locked) | "done"
    dmsg,           \* the payload the demux is writing to a public client
    exited,         \* the demux has dropped the sender of the exit channel
    clients,        \* Clients: stream -> public connection (0: no entry)
    conn,           \* public connections: socket state and history
    pump,           \* gateway downstream pumps, one per public connection
    alpc,           \* agent serve loop: "read" | "done"
    backends,       \* Backends: stream -> backend connection (0: no entry)
    back,           \* backend connections: socket state and history
    bpump,          \* agent upstream pumps, one per backend connection
    \* ---- the server: all the sessions of one gateway process ----
    listener,       \* Server::start: "listening" | "closed" (the loop has ended)
    sessions,       \* per accepted agent: what its handle_agent task owns
    \* ---- one direction of a Connection, from the writer to the reader ----
    cwrote,         \* the messages handed to control()/write(), in order
    cwire,          \* what is on the transport and not read yet
    cgot,           \* the messages read() has returned, in order
    cerr,           \* "none", or the error read() has returned
    \* ---- the encrypted transport between the two peers ----
    keypair,        \* per peer: the secret scalar of its session keypair
    secret,         \* per peer: the shared secret it derived
    enc,            \* per peer: its Encrypted values and their cipher positions
    tx,             \* per peer: the buffers its frame write still has to write
    rx,             \* per peer: the read_exact its frame read is in
    net,            \* per peer: bytes on the transport towards it
    frames,         \* per peer: size fields of the frames towards it
    turn,           \* before the split: whose message is next
    round,          \* control exchanges the gateway has answered
    posted,         \* per peer: frames written after its split
    \* ---- stream ids ----
    streams,        \* the Stream values built so far, with what they were built from
    \* ---- the environment of a serving phase ----
    offered,        \* what the public clients and the backend offer in a run:
                    \* connections, backend connections, traffic
    \* ---- the mutexes of one endpoint ----
    side,           \* the endpoint: "agent" or "gateway"
    holder,         \* per mutex: the task that holds it (NoTask: free)
    waitq,          \* per mutex: the tasks waiting for it, first come first
    tpc,            \* per task: its position
    taborted,       \* per task: its JoinHandle was aborted
    entries,        \* the pumps that have an entry in the table
    cur,            \* the pump whose entry the loop is working with (0: none)
    \* ---- the log ----
    dlog            \* gateway demux: the messages it logged as unexpected

sessVars == <<gpc, gres, token, user, registrations, bound, handle, authImpl,
              authLog, authzLog, regLog, unexpected, peer, apc, ares, atoken,
              aname, nsent, gsent, loopExit, a2g, g2a, link>>

wireVars == <<wlock, wst, wire>>

serveVars == <<lpc, dpc, dmsg, exited, clients, conn, pump, alpc, backends,
               back, bpump>>

srvVars == <<listener, sessions>>

codecVars == <<cwrote, cwire, cgot, cerr>>

encVars == <<keypair, secret, enc, tx, rx, net, frames, turn, round, posted>>

typeVars == <<streams>>

loadVars == <<offered>>

lockVars == <<side, holder, waitq, tpc, taborted, entries, cur>>

logVars == <<dlog>>

vars == <<sessVars, wireVars, serveVars, srvVars, codecVars, encVars, typeVars, loadVars,
          lockVars, logVars>>

(***************************************************************************)
(* Handshake (wire/frame.rs read_handshake, wire/mod.rs accept/negotiate)  *)
(***************************************************************************)
Handshake(m, v, k) == [hs |-> TRUE, magic |-> m, version |-> v, key |-> k]
OwnHandshake == Handshake(MAGIC, VERSION, "valid")

\* (mutant) the version byte is not compared
HandshakeCheckAnyVersion(h) ==
    IF h.magic # MAGIC THEN "InvalidMagic"
    ELSE IF h.key # "valid" THEN "Encryption"
    ELSE "ok"

\* read_handshake, then PublicKey::from_slice on the key it returned
HandshakeCheck(h) ==
    IF h.magic # MAGIC THEN "InvalidMagic"
    ELSE IF h.version # VERSION THEN "InvalidVersion"
    ELSE IF h.key # "valid" THEN "Encryption"
    ELSE "ok"

(***************************************************************************)
(* The hooks (server/auth.rs, server/register.rs)                          *)
(***************************************************************************)
AuthOk(u) == [ok |-> TRUE, user |-> u, err |-> ""]
AuthErr(e) == [ok |-> FALSE, user |-> NoUser, err |-> e]

\* Authenticate::authenticate: AuthorizeAll fails on the token "fail"; any other
\* implementation of the trait may return either.
Authenticate(impl, t) ==
    IF impl = "AuthorizeAll"
    THEN {IF t = "fail" THEN AuthErr(ErrAuthInvalidToken) ELSE AuthOk("unit")}
    ELSE {AuthOk(u) : u \in Users} \cup {AuthErr(ErrAuthCustom)}

\* Authenticate::authorize: Ok(true) | Ok(false) | Err
Authorize(impl, u, n) ==
    IF impl = "AuthorizeAll" THEN {"true"} ELSE {"true", "false", "err"}

\* TcpListener::bind(("127.0.0.1", 0)): an OS-chosen port, or an error (0)
BindResults == ListenPorts \cup {0}

\* Registerer::register: a handle, or an error
RegisterResults == {"handle", "err"}

(***************************************************************************)
(* The agent channel                                                       *)
(***************************************************************************)
\* Connection::read on a channel with the frames q in flight: the message of
\* the next frame, InvalidHeader for a frame of unknown kind, or an I/O error
\* (EOF, reset) once the connection is down.
ReadResults(q, l) ==
    (IF q # <<>>
     THEN {IF ValidKind(Head(q).kind)
           THEN [ok |-> TRUE, taken |-> TRUE, msg |-> FrameMessage(Head(q)), err |-> ""]
           ELSE [ok |-> FALSE, taken |-> TRUE, msg |-> MOk, err |-> "InvalidHeader"]}
     ELSE {})
    \cup
    (IF l = "down"
     THEN {[ok |-> FALSE, taken |-> FALSE, msg |-> MOk, err |-> "IO"]}
     ELSE {})

\* A write on the channel succeeds while the connection is up; once it is down
\* it fails or is swallowed by the socket buffer.
WriteResults == IF link = "up" THEN {TRUE} ELSE {TRUE, FALSE}

(***************************************************************************)
(* Gateway session: handle_agent up to SERVING (server/mod.rs 71-173)      *)
(***************************************************************************)
\* connection.control(ctl): the frame goes out when the write succeeds
GwReply(ctl, w) ==
    /\ g2a' = IF w THEN Append(g2a, ControlFrame(ctl)) ELSE g2a
    /\ gsent' = IF w THEN Append(gsent, ControlFrame(ctl)) ELSE gsent

\* handle_agent returns
GwReturn(res) == gpc' = "closed" /\ gres' = res

\* (mutant) the session is ended without the Error frame
GwFailSilent(text, res, w) ==
    /\ UNCHANGED <<g2a, gsent>>
    /\ GwReturn(res)

\* connection.error(..).await?; return res  (the write's own error comes first)
GwFail(text, res, w) ==
    /\ GwReply(MError(text), w)
    /\ GwReturn(IF w THEN res ELSE "IO")

\* (mutant) the unexpected message is logged and skipped
GwUnexpectedSkipped(stage, m, w) ==
    /\ unexpected' = Append(unexpected, <<stage, m>>)
    /\ UNCHANGED <<g2a, gsent, gpc, gres>>

\* lines 86-89 and 141-145: a message the stage does not accept:
\* connection.error(Error::UnexpectedMessage).await?; return Err(UnexpectedMessage)
GwUnexpected(stage, m, w) ==
    /\ unexpected' = Append(unexpected, <<stage, m>>)
    /\ GwFail(ErrUnexpectedMessage, "UnexpectedMessage", w)

\* (mutant) the result of authenticate is not looked at
AuthSucceededUnchecked(a) == TRUE

\* line 93-94: the match on authenticate's result
AuthSucceeded(a) == a.ok

\* (mutant) Ok(false) falls through as well
AuthorizedLax(z) == z \in {"true", "false"}

\* lines 121-135: the match on authorize's result: only Ok(true) falls through
Authorized(z) == z = "true"

\* the name and port given to Registerer.register (lines 158-162)
RegisterArgs(regs, port) == <<regs[1][2], port>>

\* (mutant) no limit on the number of registrations
AlreadyRegisteredNever(regs) == FALSE

\* (mutant) the limit of one registration is off by one
AlreadyRegisteredOffByOne(regs) == Len(regs) = 0

\* lines 111 and 149: the checks on the number of recorded registrations
AlreadyRegistered(regs) == Len(regs) = 1
ExactlyOneRegistration(regs) == Len(regs) = 1

\* wire::Server::accept (lines 77-81)
GwAccept ==
    /\ gpc = "handshake"
    /\ \E w \in WriteResults :
         \/ /\ a2g # <<>>
            /\ a2g' = Tail(a2g)
            /\ LET c == HandshakeCheck(Head(a2g)) IN
               IF c # "ok" THEN GwReturn(c) /\ UNCHANGED <<g2a, gsent>>
               ELSE /\ g2a' = IF w THEN Append(g2a, OwnHandshake) ELSE g2a
                    /\ gsent' = gsent
                    /\ IF w THEN gpc' = "login" /\ gres' = gres ELSE GwReturn("IO")
         \/ /\ a2g = <<>> /\ link = "down"
            /\ GwReturn("IO")
            /\ UNCHANGED <<a2g, g2a, gsent>>
    /\ UNCHANGED <<token, user, registrations, bound, handle, authImpl, authLog,
                   authzLog, regLog, unexpected, peer, apc, ares, atoken, aname,
                   nsent, loopExit, link>>
    /\ UNCHANGED <<srvVars, codecVars, encVars, typeVars, loadVars, lockVars, logVars, wireVars, serveVars>>

\* lines 83-102: receive the login token, authenticate, send okay
GwLogin ==
    /\ gpc = "login"
    /\ \E r \in ReadResults(a2g, link), w \in WriteResults :
         /\ a2g' = IF r.taken THEN Tail(a2g) ELSE a2g
         /\ IF ~r.ok
            THEN /\ GwReturn(r.err)
                 /\ UNCHANGED <<g2a, gsent, token, user, authLog, unexpected>>
            ELSE IF r.msg.type # "Login"
            THEN /\ GwUnexpected("login", r.msg, w)
                 /\ UNCHANGED <<token, user, authLog>>
            ELSE \E a \in Authenticate(authImpl, r.msg.token) :
                 /\ token' = r.msg.token
                 /\ authLog' = Append(authLog, <<r.msg.token, a.ok>>)
                 /\ unexpected' = unexpected
                 /\ IF AuthSucceeded(a)
                    THEN /\ user' = a.user
                         /\ GwReply(MOk, w)
                         /\ IF w THEN gpc' = "registering" /\ gres' = gres
                                 ELSE GwReturn("IO")
                    ELSE /\ user' = user
                         /\ GwFail(a.err, "AuthenticationError", w)
    /\ UNCHANGED <<registrations, bound, handle, authImpl, authzLog, regLog,
                   peer, apc, ares, atoken, aname, nsent, loopExit, link>>
    /\ UNCHANGED <<srvVars, codecVars, encVars, typeVars, loadVars, lockVars, logVars, wireVars, serveVars>>

\* lines 108-147: one turn of the registration loop
GwRegistering ==
    /\ gpc = "registering"
    /\ \E r \in ReadResults(a2g, link), w \in WriteResults :
         /\ a2g' = IF r.taken THEN Tail(a2g) ELSE a2g
         /\ IF ~r.ok
            THEN \* while let Ok(..) = connection.read(): the loop ends
                 /\ gpc' = "finish" /\ loopExit' = "readerr"
                 /\ UNCHANGED <<gres, g2a, gsent, registrations, authzLog, unexpected>>
            ELSE IF r.msg.type = "Register"
            THEN /\ UNCHANGED <<loopExit, unexpected>>
                 /\ IF AlreadyRegistered(registrations)
                    THEN /\ GwFail(TxtOnlyOne, "ok", w)
                         /\ UNCHANGED <<registrations, authzLog>>
                    ELSE \E z \in Authorize(authImpl, user, r.msg.name) :
                         /\ authzLog' = Append(authzLog, <<user, r.msg.name, z>>)
                         /\ IF z = "err"
                            THEN GwFail(ErrHookIO, "ok", w)
                                 /\ UNCHANGED registrations
                            ELSE IF ~Authorized(z)
                            THEN GwFail(TxtNotAuthorized, "ok", w)
                                 /\ UNCHANGED registrations
                            ELSE /\ registrations' =
                                      Append(registrations, <<r.msg.id, r.msg.name>>)
                                 /\ GwReply(MOk, w)
                                 /\ IF w THEN UNCHANGED <<gpc, gres>>
                                         ELSE GwReturn("IO")
            ELSE IF r.msg.type = "FinishRegister"
            THEN /\ gpc' = "finish" /\ loopExit' = "finish"
                 /\ UNCHANGED <<gres, g2a, gsent, registrations, authzLog, unexpected>>
            ELSE /\ GwUnexpected("registering", r.msg, w)
                 /\ UNCHANGED <<registrations, authzLog, loopExit>>
    /\ UNCHANGED <<token, user, bound, handle, authImpl, authLog, regLog, peer,
                   apc, ares, atoken, aname, nsent, link>>
    /\ UNCHANGED <<srvVars, codecVars, encVars, typeVars, loadVars, lockVars, logVars, wireVars, serveVars>>

\* lines 149-173: after the loop: bind the public listener, register the name,
\* split the connection and start the demux
GwStartServing ==
    /\ gpc = "finish"
    /\ IF ~ExactlyOneRegistration(registrations)
       THEN /\ \E w \in WriteResults : GwFail(TxtMissing, "ok", w)
            /\ UNCHANGED <<bound, regLog, handle>>
       ELSE /\ UNCHANGED <<g2a, gsent>>
            /\ \E port \in BindResults, h \in RegisterResults :
                 IF port = 0
                 THEN GwReturn("IO") /\ UNCHANGED <<bound, regLog, handle>>
                 ELSE /\ bound' = port
                      /\ regLog' = Append(regLog,
                                     <<RegisterArgs(registrations, port)[1],
                                       RegisterArgs(registrations, port)[2], h>>)
                      /\ IF h = "handle"
                         THEN /\ handle' = "held"
                              /\ gpc' = "serving" /\ gres' = gres
                         ELSE GwReturn("RegisterError") /\ UNCHANGED handle
    /\ UNCHANGED <<token, user, registrations, authImpl, authLog, authzLog,
                   unexpected, peer, apc, ares, atoken, aname, nsent, loopExit,
                   a2g, link>>
    /\ UNCHANGED <<srvVars, codecVars, encVars, typeVars, loadVars, lockVars, logVars, wireVars, serveVars>>

(***************************************************************************)
(* The shipped agent: negotiate, login, register (agent/mod.rs 17-56)      *)
(***************************************************************************)
agentOnly == <<gpc, gres, token, user, registrations, bound, handle, authImpl,
               authLog, authzLog, regLog, unexpected, peer, atoken, aname,
               gsent, loopExit, link>>

\* a write of the agent: as for the gateway
AgSend(frm, next) ==
    \E w \in WriteResults :
       /\ a2g' = IF w THEN Append(a2g, frm) ELSE a2g
       /\ nsent' = IF w THEN nsent + 1 ELSE nsent
       /\ IF w THEN apc' = next /\ ares' = ares
               ELSE apc' = "failed" /\ ares' = "IO"
       /\ UNCHANGED g2a

\* client.read().await?.ok_or_err()
AgAwaitOk(next) ==
    \E r \in ReadResults(g2a, link) :
       /\ g2a' = IF r.taken THEN Tail(g2a) ELSE g2a
       /\ IF ~r.ok THEN apc' = "failed" /\ ares' = r.err
          ELSE IF OkOrErr(r.msg) = "ok" THEN apc' = next /\ ares' = ares
          ELSE apc' = "failed" /\ ares' = OkOrErr(r.msg)
       /\ UNCHANGED <<a2g, nsent>>

\* Client::negotiate: send the handshake, then read the server's
AgNegotiate ==
    /\ peer = "agent"
    /\ \/ apc = "hs_send" /\ AgSend(OwnHandshake, "hs_read")
       \/ /\ apc = "hs_read"
          /\ \/ /\ g2a # <<>>
                /\ g2a' = Tail(g2a)
                /\ LET c == HandshakeCheck(Head(g2a)) IN
                   IF c = "ok" THEN apc' = "login_send" /\ ares' = ares
                   ELSE apc' = "failed" /\ ares' = c
             \/ /\ g2a = <<>> /\ link = "down"
                /\ apc' = "failed" /\ ares' = "IO" /\ g2a' = g2a
          /\ UNCHANGED <<a2g, nsent>>
    /\ UNCHANGED agentOnly
    /\ UNCHANGED <<srvVars, codecVars, encVars, typeVars, loadVars, lockVars, logVars, wireVars, serveVars>>

\* agent::login
AgLogin ==
    /\ peer = "agent"
    /\ \/ apc = "login_send" /\ AgSend(ControlFrame(MLogin(atoken)), "login_wait")
       \/ apc = "login_wait" /\ AgAwaitOk("reg_send")
    /\ UNCHANGED agentOnly
    /\ UNCHANGED <<srvVars, codecVars, encVars, typeVars, loadVars, lockVars, logVars, wireVars, serveVars>>

\* agent::register and register_one: Register{0, name}, await Ok, FinishRegister
AgRegister ==
    /\ peer = "agent"
    /\ \/ apc = "reg_send" /\ AgSend(ControlFrame(MRegister(0, aname)), "reg_wait")
       \/ apc = "reg_wait" /\ AgAwaitOk("finish_send")
       \/ /\ apc = "finish_send"
          /\ \E w \in WriteResults :
               /\ a2g' = IF w THEN Append(a2g, ControlFrame(MFinishRegister)) ELSE a2g
               /\ nsent' = IF w THEN nsent + 1 ELSE nsent
               /\ apc' = IF w THEN "serve" ELSE "failed"
               /\ ares' = IF w THEN "ok" ELSE "IO"
               /\ UNCHANGED g2a
    /\ UNCHANGED agentOnly
    /\ UNCHANGED <<srvVars, codecVars, encVars, typeVars, loadVars, lockVars, logVars, wireVars, serveVars>>

(***************************************************************************)
(* Any other peer, and the network                                         *)
(***************************************************************************)
\* (a wrong magic, a wrong version, an invalid key)
PeerHandshakes ==
    {OwnHandshake, Handshake(MAGIC - 1, VERSION, "valid"),
     Handshake(MAGIC, 2, "valid"), Handshake(MAGIC, VERSION, "invalid")}

PeerFrames ==
    {ControlFrame(MLogin(t)) : t \in {"fail", "tok"}}
    \cup {ControlFrame(MRegister(0, n)) : n \in Names}
    \cup {ControlFrame(MFinishRegister), ControlFrame(MOk),
          ControlFrame(MClose(5)), Frame(KindTerminate, 0, ""),
          PayloadFrame(5, "x"), Frame(9, 0, "")}

\* a peer that is not the shipped agent writes whatever it likes
PeerSend ==
    /\ peer = "rogue" /\ link = "up"
    /\ nsent < 1 + MaxPeerFrames
    /\ \E f \in (IF nsent = 0 THEN PeerHandshakes ELSE PeerFrames) :
         a2g' = Append(a2g, f)
    /\ nsent' = nsent + 1
    /\ UNCHANGED <<gpc, gres, token, user, registrations, bound, handle, authImpl,
                   authLog, authzLog, regLog, unexpected, peer, apc, ares, atoken,
                   aname, gsent, loopExit, g2a, link>>
    /\ UNCHANGED <<srvVars, codecVars, encVars, typeVars, loadVars, lockVars, logVars, wireVars, serveVars>>

\* the agent's connection ends: EOF or reset
LinkDown ==
    /\ link = "up"
    /\ link' = "down"
    /\ UNCHANGED <<gpc, gres, token, user, registrations, bound, handle, authImpl,
                   authLog, authzLog, regLog, unexpected, peer, apc, ares, atoken,
                   aname, nsent, gsent, loopExit, a2g, g2a>>
    /\ UNCHANGED <<srvVars, codecVars, encVars, typeVars, loadVars, lockVars, logVars, wireVars, serveVars>>

\* the byte-level channel at rest
\* the serving phase before its first step: empty tables, no connections
Conns == 1..MaxConns
Backs == 1..MaxBackends

\* (mutant) the registration is shifted by one byte only
StreamNewShift8(reg, port) == reg * 256 + port

\* types::Stream::new: (reg << 16) | port
StreamNew(reg, port) == reg * U16 + port

Streams == {StreamNew(0, p) : p \in Ports}

\* HashMap::get on a table over Streams
Lookup(table, id) == IF id \in Streams THEN table[id] ELSE 0

\* (mutant) the entry is dropped but stays in the table
TableRemoveNothing(table, id) == table

\* HashMap::remove
TableRemove(table, id) == [s \in DOMAIN table |-> IF s = id THEN 0 ELSE table[s]]

\* (mutant) the table is not cleared
TableClearNothing(table) == table

\* HashMap::clear
TableClear(table) == [s \in DOMAIN table |-> 0]

NewConn == [port |-> 0, phase |-> "new", nrd |-> 0, out |-> <<>>,
            rd |-> FALSE, wr |-> FALSE, werr |-> FALSE]
NoPump == [pc |-> "none", buf |-> 0, abort |-> FALSE, ended |-> "no", closed |-> FALSE]
NewBack == [stream |-> 0, phase |-> "new", nrd |-> 0, out |-> <<>>,
            rd |-> FALSE, wr |-> FALSE, werr |-> FALSE, lclosed |-> FALSE,
            gclosed |-> FALSE]

ServeIdle ==
    /\ lpc = "select" /\ dpc = "read" /\ dmsg = <<>> /\ exited = FALSE
    /\ dlog = <<>>
    /\ clients = [s \in Streams |-> 0]
    /\ conn = [c \in Conns |-> NewConn]
    /\ pump = [c \in Conns |-> NoPump]
    /\ alpc = "read"
    /\ backends = [s \in Streams |-> 0]
    /\ back = [b \in Backs |-> NewBack]
    /\ bpump = [b \in Backs |-> NoPump]

\* Connection::new: nothing written, nothing read
CodecIdle == cwrote = <<>> /\ cwire = <<>> /\ cgot = <<>> /\ cerr = "none"

\* the two ends of the agent connection
Peers == {"agent", "gateway"}

Other(p) == IF p = "agent" THEN "gateway" ELSE "agent"

\* no shared secret derived yet
NoSecret == [sha512 |-> -1]

\* no Encrypted value yet: the transport is still raw
NoEncrypted == [st |-> "raw", cipher |-> 0, rcipher |-> 0, wcipher |-> 0]

\* no read_exact under way
NoRead == [stage |-> "idle", want |-> 0, filled |-> 0]

EncIdle ==
    /\ keypair = [p \in Peers |-> 1]
    /\ secret = [p \in Peers |-> NoSecret]
    /\ enc = [p \in Peers |-> NoEncrypted]
    /\ tx = [p \in Peers |-> <<>>]
    /\ rx = [p \in Peers |-> NoRead]
    /\ net = [p \in Peers |-> 0]
    /\ frames = [p \in Peers |-> <<>>]
    /\ turn = "agent"
    /\ round = 0
    /\ posted = [p \in Peers |-> 0]

TypeIdle == streams = {}

\* the tasks of an endpoint: its pumps, its loop (the accept loop of the
\* gateway, the serve loop of the agent) and the demux of the gateway
LockPumpIds == 1..LockPumps
TLoop == LockPumps + 1
TDemux == LockPumps + 2
Tasks == 1..(LockPumps + 2)
NoTask == 0

\* the table mutex (Clients, Backends) and the mutex of the shared writer
Mutexes == {"table", "writer"}

\* nothing spawned, both mutexes free
LockIdle ==
    /\ side = "agent"
    /\ holder = [m \in Mutexes |-> NoTask]
    /\ waitq = [m \in Mutexes |-> <<>>]
    /\ tpc = [t \in Tasks |-> "none"]
    /\ taborted = [t \in Tasks |-> FALSE]
    /\ entries = {}
    /\ cur = 0

\* a run is offered all the bounds allow
LoadIdle ==
    offered = [conns |-> MaxConns, backends |-> MaxBackends, traffic |-> MaxTraffic]

Sessions == 1..MaxSessions

\* a slot no agent has been accepted for yet
NoSession == [stage |-> "none", res |-> "none", chan |-> "none", table |-> {},
              handle |-> "none", logged |-> FALSE, closedAtSpawn |-> 0]

\* Server::start, line 53: the listener is bound, no agent has connected
ServerIdle ==
    /\ listener = "listening"
    /\ sessions = [i \in Sessions |-> NoSession]

WireIdle ==
    /\ wlock = {}
    /\ wst = [w \in 0..NPumps |-> [pc |-> "idle", n |-> 0, pos |-> 0, len |-> 0]]
    /\ wire = <<>>

InitSession ==
    /\ gpc = "handshake" /\ gres = "running"
    /\ token = NoToken /\ user = NoUser
    /\ registrations = <<>> /\ bound = 0 /\ handle = "none"
    /\ authImpl \in {"AuthorizeAll", "Custom"}
    /\ authLog = <<>> /\ authzLog = <<>> /\ regLog = <<>> /\ unexpected = <<>>
    /\ peer \in {"agent", "rogue"}
    /\ apc = (IF peer = "agent" THEN "hs_send" ELSE "rogue")
    /\ ares = "running"
    /\ atoken \in (IF peer = "agent" THEN Tokens ELSE {""})
    /\ aname \in (IF peer = "agent" THEN Names ELSE {"svc"})
    /\ nsent = 0 /\ gsent = <<>> /\ loopExit = "none"
    /\ a2g = <<>> /\ g2a = <<>> /\ link = "up"
    /\ WireIdle /\ ServeIdle /\ LoadIdle /\ LockIdle /\ ServerIdle /\ CodecIdle /\ EncIdle /\ TypeIdle

NextSession ==
    \/ GwAccept \/ GwLogin \/ GwRegistering \/ GwStartServing
    \/ AgNegotiate \/ AgLogin \/ AgRegister
    \/ PeerSend \/ LinkDown

SpecSession == InitSession /\ [][NextSession]_vars

(***************************************************************************)
(* The bytes of the shared agent channel.                                  *)
(* Writer 0 is the loop (the agent's serve loop writes Close frames),      *)
(* writers 1..NPumps are pump tasks (Payload frames and a Close frame).    *)
(* A frame is written as `writer.lock().await.write(..)/.control(..)`:     *)
(* lock the mutex, FrameWriterHalf::write (write_all of the 7 header       *)
(* bytes, then write_all of the payload), flush, unlock.  write_all hands  *)
(* the transport as many bytes as it takes and suspends when it takes no   *)
(* more.  A byte is <<writer, frame number, index, frame length>>.         *)
(***************************************************************************)
Writers == 0..NPumps
Pumps == 1..NPumps

\* payload sizes a writer sends: the loop sends Close frames (no payload)
PayloadLens(w) == IF w = 0 THEN {0} ELSE 0..MaxData

FrameLen(st) == FRAME_HEADER_SIZE + st.len

\* bytes left in the buffer being written (the header, then the payload)
LeftInBuffer(st) ==
    IF st.pos < FRAME_HEADER_SIZE THEN FRAME_HEADER_SIZE - st.pos
    ELSE FrameLen(st) - st.pos

FrameBytes(w, st, from, to) ==
    [i \in 1..(to - from + 1) |-> <<w, st.n + 1, from + i - 1, FrameLen(st)>>]

\* writer.lock().await: the mutex is granted to one task at a time
WireLock(w) ==
    /\ wlock = {} /\ wst[w].pc = "idle" /\ wst[w].n < MaxWireFrames
    /\ \E len \in PayloadLens(w) :
         wst' = [wst EXCEPT ![w] = [pc |-> "writing", n |-> @.n, pos |-> 0, len |-> len]]
    /\ wlock' = {w}
    /\ UNCHANGED <<wire, sessVars, serveVars, srvVars, codecVars, encVars, typeVars, loadVars, lockVars, logVars>>

\* FrameWriterHalf::write: one poll_write of write_all: the transport takes
\* k bytes of the buffer
WireWrite(w) ==
    /\ wlock = {w} /\ wst[w].pc = "writing" /\ wst[w].pos < FrameLen(wst[w])
    /\ \E k \in 1..LeftInBuffer(wst[w]) :
         /\ wire' = wire \o FrameBytes(w, wst[w], wst[w].pos + 1, wst[w].pos + k)
         /\ wst' = [wst EXCEPT ![w].pos = @ + k]
    /\ UNCHANGED <<wlock, sessVars, serveVars, srvVars, codecVars, encVars, typeVars, loadVars, lockVars, logVars>>

\* the frame is out: flush, the guard is dropped
WireUnlock(w) ==
    /\ wlock = {w} /\ wst[w].pc = "writing" /\ wst[w].pos = FrameLen(wst[w])
    /\ wst' = [wst EXCEPT ![w] = [pc |-> "idle", n |-> @.n + 1, pos |-> 0, len |-> 0]]
    /\ wlock' = {}
    /\ UNCHANGED <<wire, sessVars, serveVars, srvVars, codecVars, encVars, typeVars, loadVars, lockVars, logVars>>

\* Client::drop / BackendClient::drop: handler.abort().  The pump is dropped at
\* the await it is suspended in: the lock request, or a write the transport
\* does not take yet; its guard is released with it.
WireAbort(p) ==
    /\ p \in Pumps /\ wst[p].pc # "dead"
    /\ wst' = [wst EXCEPT ![p].pc = "dead"]
    /\ wlock' = wlock \ {p}
    /\ UNCHANGED <<wire, sessVars, serveVars, srvVars, codecVars, encVars, typeVars, loadVars, lockVars, logVars>>

(***************************************************************************)
(* The serving phase: gateway (server/mod.rs 164-326)                      *)
(***************************************************************************)
sessRest == <<token, user, registrations, bound, authImpl, authLog, authzLog,
              regLog, unexpected, peer, apc, ares, atoken, aname, nsent, gsent,
              loopExit>>

Alive(p) == p.pc \in {"read", "send", "remove", "close"}

\* (mutant) the buffer is handed to the socket twice
SocketWriteTwice(out, data) == Append(Append(out, data), data)

\* socket.write_all(&data): the bytes are appended to what the socket was sent
SocketWrite(out, data) == Append(out, data)

\* the stream of a public connection (line 191)
StreamOfConn(c) == StreamNew(registrations[1][1], conn[c].port)

\* (mutant) no Drop for Client: a dropped JoinHandle leaves its task running
DetachHandlers(pm, S) == pm

\* Drop of the entries held for the connections in S: Client::drop aborts the
\* handler (no effect on a finished task), the OwnedWriteHalf is dropped
DropHandlers(pm, S) ==
    [c \in DOMAIN pm |-> IF c \in S /\ Alive(pm[c])
                         THEN [pm[c] EXCEPT !.abort = TRUE] ELSE pm[c]]
DropWriteHalves(cn, S) ==
    [c \in DOMAIN cn |-> IF c \in S THEN [cn[c] EXCEPT !.wr = FALSE] ELSE cn[c]]

\* What a socket's peer has done is seen by the program only through its reads
\* and writes, so the peer's close or failure is drawn where it is observed.
\* A read at the end of the data sees EOF or an error; once an error was seen
\* every later operation fails.
ReadEnds(phase) == IF phase = "up" THEN {"eof", "error"} ELSE {phase}

\* write_all succeeds, or fails (reset, broken pipe or any other error: the
\* code treats them alike)
WriteOutcomes(phase) == IF phase = "error" THEN {FALSE} ELSE {TRUE, FALSE}

RECURSIVE Sum(_, _)
Sum(f, S) == IF S = {} THEN 0
             ELSE LET x == CHOOSE y \in S : TRUE IN f[x].nrd + Sum(f, S \ {x})

Traffic == Cardinality({c \in Conns : conn[c].phase # "new"})
           + Sum(conn, Conns) + Sum(back, Backs)

\* (mutant) the accept loop takes the Clients lock only for the insertion
AcceptHoldsNever == FALSE

\* the accept loop holds the Clients lock: from line 201, before the spawn,
\* to the end of the iteration, after the insertion
AcceptHolds == lpc = "insert"

\* the Clients mutex is free: the demux holds it across an await (the write
\* to a public client), the accept loop while it spawns and inserts
ClientsFree == dpc # "write" /\ ~AcceptHolds

\* the connection accepted last: the one the accept loop is inserting
Pending == CHOOSE c \in Conns :
              conn[c].phase # "new" /\ \A d \in Conns : d > c => conn[d].phase = "new"

\* the OS gives an accepted socket a source port that no accepted socket that
\* is still open has
PortFree(p) == \A c \in Conns : conn[c].port = p => (~conn[c].rd /\ ~conn[c].wr)

\* lines 181-214: accept a public client: lock Clients and spawn the
\* downstream pump, which runs from now on
Accept(c, p) ==
    /\ gpc = "serving" /\ lpc = "select" /\ ClientsFree
    /\ conn[c].phase = "new" /\ \A d \in Conns : d < c => conn[d].phase # "new"
    /\ c <= offered.conns /\ PortFree(p) /\ Traffic < offered.traffic
    /\ conn' = [conn EXCEPT ![c] = [NewConn EXCEPT !.port = p, !.phase = "up",
                                                   !.rd = TRUE, !.wr = TRUE]]
    /\ pump' = [pump EXCEPT ![c] = [NoPump EXCEPT !.pc = "read"]]
    /\ lpc' = "insert"
    /\ UNCHANGED <<sessVars, srvVars, codecVars, encVars, typeVars, loadVars, lockVars, logVars, wireVars, dpc, dmsg, exited, clients, alpc,
                   backends, back, bpump>>

\* lines 216-223: insert the entry (an entry the stream already has is
\* dropped) and release the lock at the end of the iteration
AcceptInsert ==
    /\ gpc = "serving" /\ lpc = "insert"
    /\ LET c == Pending
           s == StreamOfConn(c)
           old == {clients[s]} \ {0}
       IN /\ clients' = [clients EXCEPT ![s] = c]
          /\ conn' = DropWriteHalves(conn, old)
          /\ pump' = DropHandlers(pump, old)
    /\ lpc' = "select"
    /\ UNCHANGED <<sessVars, srvVars, codecVars, encVars, typeVars, loadVars, lockVars, logVars, wireVars, dpc, dmsg, exited, alpc, backends,
                   back, bpump>>

\* line 185-188: bind.accept() fails: the loop ends
AcceptErr ==
    /\ gpc = "serving" /\ lpc = "select"
    /\ lpc' = "clear"
    /\ UNCHANGED <<sessVars, srvVars, codecVars, encVars, typeVars, loadVars, lockVars, logVars, wireVars, dpc, dmsg, exited, clients, conn, pump,
                   alpc, backends, back, bpump>>

\* line 177-180: the exit channel is closed: the loop ends
LoopExit ==
    /\ gpc = "serving" /\ lpc = "select" /\ exited
    /\ lpc' = "clear"
    /\ UNCHANGED <<sessVars, srvVars, codecVars, encVars, typeVars, loadVars, lockVars, logVars, wireVars, dpc, dmsg, exited, clients, conn, pump,
                   alpc, backends, back, bpump>>

\* lines 227-230: clear the table, drop the registration handle, return
LoopClear ==
    /\ gpc = "serving" /\ lpc = "clear" /\ ClientsFree
    /\ LET held == {clients[s] : s \in Streams} \ {0} IN
          /\ clients' = TableClear(clients)
          /\ conn' = DropWriteHalves(conn, held)
          /\ pump' = DropHandlers(pump, held)
    /\ handle' = "dropped" /\ gpc' = "closed" /\ gres' = "ok" /\ lpc' = "done"
    /\ UNCHANGED <<sessRest, a2g, g2a, link, srvVars, codecVars, encVars, typeVars, loadVars, lockVars, logVars, wireVars, dpc, dmsg, exited, alpc,
                   backends, back, bpump>>

\* downstream, line 313-322: down.read(&mut buf): the next chunk the client
\* sends, or EOF or an error, which end downstream (its read half is dropped)
PumpRead(c) ==
    /\ pump[c].pc = "read"
    /\ \/ /\ conn[c].phase = "up" /\ Traffic < offered.traffic
          /\ pump' = [pump EXCEPT ![c].pc = "send", ![c].buf = conn[c].nrd + 1]
          /\ conn' = [conn EXCEPT ![c].nrd = @ + 1]
       \/ \E e \in ReadEnds(conn[c].phase) :
            /\ pump' = [pump EXCEPT ![c].pc = "remove", ![c].ended = e]
            /\ conn' = [conn EXCEPT ![c].rd = FALSE, ![c].phase = e]
    /\ UNCHANGED <<sessVars, srvVars, codecVars, encVars, typeVars, loadVars, lockVars, logVars, wireVars, lpc, dpc, dmsg, exited, clients, alpc,
                   backends, back, bpump>>

\* downstream, line 324: writer.lock().await.write(id, &buf[..n]).await?
PumpSend(c) ==
    /\ pump[c].pc = "send"
    /\ \E w \in WriteResults :
         IF w
         THEN /\ g2a' = Append(g2a, PayloadFrame(StreamOfConn(c), <<c, pump[c].buf>>))
              /\ pump' = [pump EXCEPT ![c].pc = "read"]
              /\ conn' = conn
         ELSE /\ g2a' = g2a
              /\ pump' = [pump EXCEPT ![c].pc = "remove", ![c].ended = "wfail"]
              /\ conn' = [conn EXCEPT ![c].rd = FALSE]
    /\ UNCHANGED <<sessRest, gpc, gres, handle, a2g, link, srvVars, codecVars, encVars, typeVars, loadVars, lockVars, logVars, wireVars, lpc, dpc,
                   dmsg, exited, clients, alpc, backends, back, bpump>>

\* line 212: clients_drop.lock().await.remove(&stream_id): whatever entry the
\* stream has is dropped
PumpRemove(c) ==
    /\ pump[c].pc = "remove" /\ ClientsFree
    /\ LET s == StreamOfConn(c)
           old == {clients[s]} \ {0}
       IN /\ clients' = TableRemove(clients, s)
          /\ conn' = DropWriteHalves(conn, old)
          /\ pump' = DropHandlers([pump EXCEPT ![c].pc = "close"], old)
    /\ UNCHANGED <<sessVars, srvVars, codecVars, encVars, typeVars, loadVars, lockVars, logVars, wireVars, lpc, dpc, dmsg, exited, alpc, backends,
                   back, bpump>>

\* line 213: let _ = agent_writer.lock().await.control(Close{id}).await
PumpClose(c) ==
    /\ pump[c].pc = "close"
    /\ \E w \in WriteResults :
         /\ g2a' = IF w THEN Append(g2a, ControlFrame(MClose(StreamOfConn(c)))) ELSE g2a
         /\ pump' = [pump EXCEPT ![c].pc = "done", ![c].closed = w]
    /\ UNCHANGED <<sessRest, gpc, gres, handle, a2g, link, srvVars, codecVars, encVars, typeVars, loadVars, lockVars, logVars, wireVars, lpc, dpc,
                   dmsg, exited, clients, conn, alpc, backends, back, bpump>>

\* JoinHandle::abort takes effect when the task is suspended in an await: the
\* task is dropped there, and with it what it owns (the read half)
PumpDie(c) ==
    /\ pump[c].abort /\ Alive(pump[c])
    /\ pump' = [pump EXCEPT ![c].pc = "dead"]
    /\ conn' = [conn EXCEPT ![c].rd = FALSE]
    /\ UNCHANGED <<sessVars, srvVars, codecVars, encVars, typeVars, loadVars, lockVars, logVars, wireVars, lpc, dpc, dmsg, exited, clients, alpc,
                   backends, back, bpump>>

\* (mutant) a payload for a stream that has no entry ends the demux
DropPayloadStops == dpc' = "done" /\ dmsg' = dmsg

\* lines 272-284: streams.get_mut(&id) is None: there is no else branch, the
\* payload is dropped and the loop reads the next message
DropPayload == UNCHANGED <<dpc, dmsg>>

\* (mutant) any other message ends the demux, as it ends the login and the
\* registration
IgnoreMessageStops(m) ==
    /\ dlog' = Append(dlog, m.type)
    /\ dpc' = "done" /\ exited' = TRUE /\ UNCHANGED <<dmsg, clients, conn, pump>>

\* lines 289-291: msg => log::debug!(..): the message is logged and the loop
\* reads the next one
IgnoreMessage(m) ==
    /\ dlog' = Append(dlog, m.type)
    /\ UNCHANGED <<dpc, dmsg, exited, clients, conn, pump>>

\* upstream (the demux), lines 259-295: read one message and dispatch it
DemuxRead ==
    /\ dpc = "read"
    /\ \E r \in ReadResults(a2g, link) :
         \* lines 273, 287: streams.lock().await
         /\ (r.ok /\ r.msg.type \in {"Payload", "Close"}) => ~AcceptHolds
         /\ a2g' = IF r.taken THEN Tail(a2g) ELSE a2g
         /\ IF ~r.ok \/ r.msg.type = "Terminate"
            THEN /\ dpc' = "done" /\ exited' = TRUE
                 /\ UNCHANGED <<dmsg, clients, conn, pump, dlog>>
            ELSE IF r.msg.type = "Payload"
            THEN /\ IF Lookup(clients, r.msg.id) # 0
                    THEN dpc' = "write" /\ dmsg' = <<r.msg.id, r.msg.data>>
                    ELSE DropPayload
                 /\ UNCHANGED <<exited, clients, conn, pump, dlog>>
            ELSE IF r.msg.type = "Close"
            THEN /\ LET old == {Lookup(clients, r.msg.id)} \ {0} IN
                      /\ clients' = TableRemove(clients, r.msg.id)
                      /\ conn' = DropWriteHalves(conn, old)
                      /\ pump' = DropHandlers(pump, old)
                 /\ UNCHANGED <<dpc, dmsg, exited, dlog>>
            ELSE IgnoreMessage(r.msg)
    /\ UNCHANGED <<sessRest, gpc, gres, handle, g2a, link, srvVars, codecVars, encVars, typeVars, loadVars, lockVars, wireVars, lpc, alpc,
                   backends, back, bpump>>

\* lines 271-284: client.write.write_all(&data) under the Clients lock; on an
\* error the entry is removed
DemuxWrite ==
    /\ dpc = "write"
    /\ LET id == dmsg[1]
           c == clients[id]
       IN \E ok \in WriteOutcomes(conn[c].phase) :
            IF ok
            THEN /\ conn' = [conn EXCEPT ![c].out = SocketWrite(@, dmsg[2])]
                 /\ UNCHANGED <<clients, pump>>
            ELSE /\ clients' = TableRemove(clients, id)
                 /\ conn' = [DropWriteHalves(conn, {c}) EXCEPT
                               ![c].werr = TRUE, ![c].phase = "error"]
                 /\ pump' = DropHandlers(pump, {c})
    /\ dpc' = "read" /\ dmsg' = <<>>
    /\ UNCHANGED <<sessVars, srvVars, codecVars, encVars, typeVars, loadVars, lockVars, logVars, wireVars, lpc, exited, alpc, backends, back, bpump>>

SessionIdle ==
    /\ gpc = "serving" /\ gres = "running"
    /\ token = "tok" /\ user = "unit"
    /\ registrations = << <<0, "svc">> >> /\ bound = 41001 /\ handle = "held"
    /\ authImpl = "AuthorizeAll"
    /\ authLog = << <<"tok", TRUE>> >> /\ authzLog = << <<"unit", "svc", "true">> >>
    /\ regLog = << <<"svc", 41001, "handle">> >> /\ unexpected = <<>>
    /\ peer = "agent" /\ apc = "serve" /\ ares = "ok"
    /\ atoken = "tok" /\ aname = "svc"
    /\ nsent = 4 /\ gsent = <<ControlFrame(MOk), ControlFrame(MOk)>>
    /\ loopExit = "finish"
    /\ a2g = <<>> /\ g2a = <<>> /\ link = "up"

InitWire == SessionIdle /\ WireIdle /\ ServeIdle /\ LoadIdle /\ LockIdle /\ ServerIdle /\ CodecIdle /\ EncIdle /\ TypeIdle

NextWire ==
    \E w \in Writers : WireLock(w) \/ WireWrite(w) \/ WireUnlock(w) \/ WireAbort(w)

SpecWire == InitWire /\ [][NextWire]_vars

\* the scheduler runs every task that is ready: the session task of the gateway
\* and the agent
(***************************************************************************)
(* The serving phase: agent (agent/mod.rs 60-192)                          *)
(***************************************************************************)
gwServe == <<lpc, dpc, dmsg, exited, clients, conn, pump>>

\* Drop of BackendClient entries: the handler is aborted, the write half dropped
DropBackends(bk, S) ==
    [b \in DOMAIN bk |-> IF b \in S THEN [bk[b] EXCEPT !.wr = FALSE] ELSE bk[b]]

\* TcpStream::connect(&backend): it fails, or it gives a new connection
ConnectResults ==
    {0} \cup {b \in Backs : b <= offered.backends /\ back[b].phase = "new"
                            /\ \A d \in Backs : d < b => back[d].phase # "new"}

\* (mutant) no pump is spawned for a new backend connection
SpawnNothing == NoPump

\* make_upstream, line 147: tokio::spawn of the upstream pump of a backend
SpawnUpstream == [NoPump EXCEPT !.pc = "read"]

\* lines 114-124: client.writer.write_all(&data) on the entry of the stream in
\* the table tb (backend sockets bk, pumps bp); on an error send Close and
\* remove the entry (serve returns if the Close cannot be written)
ServeWrite(id, data, tb, bk, bp) ==
    LET b == tb[id] IN
    \E ok \in WriteOutcomes(bk[b].phase) :
      IF ok
      THEN /\ back' = [bk EXCEPT ![b].out = SocketWrite(@, data)]
           /\ backends' = tb /\ bpump' = bp
           /\ UNCHANGED <<a2g, alpc>>
      ELSE \E w \in WriteResults :
             IF w
             THEN /\ a2g' = Append(a2g, ControlFrame(MClose(id)))
                  /\ backends' = TableRemove(tb, id)
                  /\ back' = [DropBackends(bk, {b}) EXCEPT
                                ![b].werr = TRUE, ![b].lclosed = TRUE,
                                ![b].phase = "error"]
                  /\ bpump' = DropHandlers(bp, {b})
                  /\ alpc' = alpc
             ELSE /\ alpc' = "done"
                  /\ back' = [bk EXCEPT ![b].werr = TRUE, ![b].phase = "error"]
                  /\ backends' = tb /\ bpump' = bp
                  /\ a2g' = a2g

\* lines 78-112: the stream has no entry: connect; on failure send Close and go
\* on (serve returns if the Close cannot be written); otherwise spawn the
\* upstream pump, insert the entry and fall through to the write at line 114
ServeConnect(id, data) ==
    \E b \in ConnectResults :
      IF b = 0
      THEN \E w \in WriteResults :
             /\ a2g' = IF w THEN Append(a2g, ControlFrame(MClose(id))) ELSE a2g
             /\ alpc' = IF w THEN "read" ELSE "done"
             /\ UNCHANGED <<backends, back, bpump>>
      ELSE ServeWrite(id, data,
                      [backends EXCEPT ![id] = b],
                      [back EXCEPT ![b] = [NewBack EXCEPT
                         !.stream = id, !.phase = "up", !.rd = TRUE, !.wr = TRUE]],
                      [bpump EXCEPT ![b] = SpawnUpstream])

\* lines 126-128: the entries in S are removed on a Close from the gateway:
\* dropped as any entry is, and remembered as closed by the gateway
CloseBackends(bk, S) ==
    [b \in DOMAIN bk |-> IF b \in S THEN [bk[b] EXCEPT !.wr = FALSE, !.gclosed = TRUE]
                                     ELSE bk[b]]

\* lines 70-133: one turn of the serve loop
AgServe ==
    /\ alpc = "read"
    /\ \E r \in ReadResults(g2a, link) :
         /\ g2a' = IF r.taken THEN Tail(g2a) ELSE g2a
         /\ IF ~r.ok
            THEN alpc' = "done" /\ UNCHANGED <<a2g, backends, back, bpump>>
            ELSE IF r.msg.type = "Payload" /\ r.msg.id \in Streams
            THEN IF backends[r.msg.id] = 0
                 THEN ServeConnect(r.msg.id, r.msg.data)
                 ELSE ServeWrite(r.msg.id, r.msg.data, backends, back, bpump)
            ELSE IF r.msg.type = "Close"
            THEN /\ LET old == {Lookup(backends, r.msg.id)} \ {0} IN
                      /\ backends' = TableRemove(backends, r.msg.id)
                      /\ back' = CloseBackends(back, old)
                      /\ bpump' = DropHandlers(bpump, old)
                 /\ UNCHANGED <<a2g, alpc>>
            ELSE UNCHANGED <<a2g, alpc, backends, back, bpump>>
    /\ UNCHANGED <<sessRest, gpc, gres, handle, link, srvVars, codecVars, encVars, typeVars, loadVars, lockVars, logVars, wireVars, gwServe>>

\* upstream, lines 173-177: read the next chunk the backend sends, or end
BPumpRead(b) ==
    /\ bpump[b].pc = "read"
    /\ \/ /\ back[b].phase = "up" /\ Traffic < offered.traffic
          /\ bpump' = [bpump EXCEPT ![b].pc = "send", ![b].buf = back[b].nrd + 1]
          /\ back' = [back EXCEPT ![b].nrd = @ + 1]
       \/ \E e \in ReadEnds(back[b].phase) :
            /\ bpump' = [bpump EXCEPT ![b].pc = "close", ![b].ended = e]
            /\ back' = [back EXCEPT ![b].rd = FALSE, ![b].phase = e]
    /\ UNCHANGED <<sessVars, srvVars, codecVars, encVars, typeVars, loadVars, lockVars, logVars, wireVars, gwServe, alpc, backends>>

\* upstream, line 179: writer.lock().await.write(id, &buf[..n]).await?
BPumpSend(b) ==
    /\ bpump[b].pc = "send"
    /\ \E w \in WriteResults :
         IF w
         THEN /\ a2g' = Append(a2g, PayloadFrame(back[b].stream, <<b, bpump[b].buf>>))
              /\ bpump' = [bpump EXCEPT ![b].pc = "read"]
              /\ back' = back
         ELSE /\ a2g' = a2g
              /\ bpump' = [bpump EXCEPT ![b].pc = "close", ![b].ended = "wfail"]
              /\ back' = [back EXCEPT ![b].rd = FALSE]
    /\ UNCHANGED <<sessRest, gpc, gres, handle, g2a, link, srvVars, codecVars, encVars, typeVars, loadVars, lockVars, logVars, wireVars, gwServe,
                   alpc, backends>>

\* lines 153-157: let _ = writer.lock().await.control(Close{id}).await
BPumpClose(b) ==
    /\ bpump[b].pc = "close"
    /\ \E w \in WriteResults :
         /\ a2g' = IF w THEN Append(a2g, ControlFrame(MClose(back[b].stream))) ELSE a2g
         /\ bpump' = [bpump EXCEPT ![b].pc = "remove", ![b].closed = w]
    /\ UNCHANGED <<sessRest, gpc, gres, handle, g2a, link, srvVars, codecVars, encVars, typeVars, loadVars, lockVars, logVars, wireVars, gwServe,
                   alpc, backends, back>>

\* line 160: connections.lock().await.remove(&id): whatever entry the stream has
BPumpRemove(b) ==
    /\ bpump[b].pc = "remove"
    /\ LET s == back[b].stream
           old == {backends[s]} \ {0}
       IN /\ backends' = TableRemove(backends, s)
          /\ back' = DropBackends(back, old)
          /\ bpump' = DropHandlers([bpump EXCEPT ![b].pc = "done"], old)
    /\ UNCHANGED <<sessVars, srvVars, codecVars, encVars, typeVars, loadVars, lockVars, logVars, wireVars, gwServe, alpc>>

\* BackendClient::drop aborted the pump: it is dropped at an await
BPumpDie(b) ==
    /\ bpump[b].abort /\ Alive(bpump[b])
    /\ bpump' = [bpump EXCEPT ![b].pc = "dead"]
    /\ back' = [back EXCEPT ![b].rd = FALSE]
    /\ UNCHANGED <<sessVars, srvVars, codecVars, encVars, typeVars, loadVars, lockVars, logVars, wireVars, gwServe, alpc, backends>>

\* the agent connection breaks
ServeLinkDown ==
    /\ link = "up" /\ link' = "down"
    /\ UNCHANGED <<sessRest, gpc, gres, handle, a2g, g2a, srvVars, codecVars, encVars, typeVars, loadVars, lockVars, logVars, wireVars, serveVars>>

InitServe == SessionIdle /\ WireIdle /\ ServeIdle /\ LoadIdle /\ LockIdle /\ ServerIdle /\ CodecIdle /\ EncIdle /\ TypeIdle

GatewayStep ==
    \/ \E c \in Conns, p \in Ports : Accept(c, p)
    \/ AcceptInsert
    \/ AcceptErr
    \/ LoopExit
    \/ LoopClear
    \/ DemuxRead
    \/ DemuxWrite
    \/ \E c \in Conns : PumpRead(c) \/ PumpSend(c) \/ PumpRemove(c) \/ PumpClose(c)
    \/ \E c \in Conns : PumpDie(c)

AgentStep ==
    \/ AgServe
    \/ \E b \in Backs : BPumpRead(b) \/ BPumpSend(b) \/ BPumpClose(b) \/ BPumpRemove(b)
    \/ \E b \in Backs : BPumpDie(b)

NextServe == GatewayStep \/ AgentStep \/ ServeLinkDown

SpecServe == InitServe /\ [][NextServe]_vars

\* Liveness is checked on the runs of LiveConns public connections and
\* LiveBackends backend connections.
InitLive ==
    /\ SessionIdle /\ WireIdle /\ ServeIdle /\ LockIdle /\ ServerIdle /\ CodecIdle /\ EncIdle
    /\ TypeIdle
    /\ offered = [conns |-> LiveConns, backends |-> LiveBackends, traffic |-> MaxTraffic]

\* The runtime runs every task that can run: the demux and the accept loop
\* take their next step, and an aborted pump is dropped.  The write to a
\* public client under the Clients lock is taken to complete.
LiveServe ==
    /\ InitLive /\ [][NextServe]_vars
    /\ WF_vars(DemuxRead) /\ WF_vars(DemuxWrite)
    /\ WF_vars(LoopExit) /\ WF_vars(LoopClear) /\ WF_vars(AcceptInsert)
    /\ \A c \in Conns : WF_vars(PumpDie(c))

\* The gateway in SERVING with a peer that is not the shipped agent: it has
\* logged in and registered like the agent, and then writes any frame.  The
\* runs are those of LiveConns public connections.
NoiseFrames ==
    {ControlFrame(MOk), ControlFrame(MError("x")), ControlFrame(MRegister(0, "svc")),
     ControlFrame(MFinishRegister), ControlFrame(MLogin("tok")),
     Frame(KindTerminate, 0, "")}
    \cup {PayloadFrame(s, "x") : s \in Streams}
    \cup {ControlFrame(MClose(s)) : s \in Streams}

NoiseSend ==
    /\ gpc = "serving" /\ peer = "rogue" /\ link = "up"
    /\ nsent < 4 + MaxNoise
    /\ \E f \in NoiseFrames : a2g' = Append(a2g, f)
    /\ nsent' = nsent + 1
    /\ UNCHANGED <<gpc, gres, token, user, registrations, bound, handle, authImpl,
                   authLog, authzLog, regLog, unexpected, peer, apc, ares, atoken,
                   aname, gsent, loopExit, g2a, link>>
    /\ UNCHANGED <<srvVars, codecVars, encVars, typeVars, loadVars, lockVars, logVars, wireVars, serveVars>>

InitDemux ==
    /\ gpc = "serving" /\ gres = "running"
    /\ token = "tok" /\ user = "unit"
    /\ registrations = << <<0, "svc">> >> /\ bound = 41001 /\ handle = "held"
    /\ authImpl = "AuthorizeAll"
    /\ authLog = << <<"tok", TRUE>> >> /\ authzLog = << <<"unit", "svc", "true">> >>
    /\ regLog = << <<"svc", 41001, "handle">> >> /\ unexpected = <<>>
    /\ peer = "rogue" /\ apc = "rogue" /\ ares = "running"
    /\ atoken = "" /\ aname = "svc"
    /\ nsent = 4 /\ gsent = <<ControlFrame(MOk), ControlFrame(MOk)>>
    /\ loopExit = "finish"
    /\ a2g = <<>> /\ g2a = <<>> /\ link = "up"
    /\ WireIdle /\ ServeIdle /\ LockIdle /\ ServerIdle /\ CodecIdle /\ EncIdle /\ TypeIdle
    /\ offered = [conns |-> LiveConns, backends |-> LiveBackends, traffic |-> MaxTraffic]

NextDemux == GatewayStep \/ NoiseSend \/ ServeLinkDown

SpecDemux == InitDemux /\ [][NextDemux]_vars

LiveSession ==
    /\ SpecSession
    /\ WF_vars(GwAccept \/ GwLogin \/ GwRegistering \/ GwStartServing)
    /\ WF_vars(AgNegotiate \/ AgLogin \/ AgRegister)

(***************************************************************************)
(* The framing codec between two peers (wire/mod.rs 145-248,               *)
(* wire/frame.rs 150-231)                                                  *)
(***************************************************************************)
\* A string or a byte buffer is known by where its bytes come from: bytes
\* from..from+len-1 of the payload of the src-th message written.  All empty
\* buffers are the same.
Bytes(src, from, len) ==
    IF len = 0 THEN [src |-> 0, from |-> 1, len |-> 0]
    ELSE [src |-> src, from |-> from, len |-> len]

\* lengths of the strings and buffers a caller passes
Lens == {0, 1, MAX_PAYLOAD_SIZE, MAX_PAYLOAD_SIZE + 1}
RegistrationIds == {0, U16 - 1}
StreamIds == {0, 20, U16 + 1}

\* the Control values that control() is called with as the k-th message
Controls(k) ==
    {MOk, MFinishRegister}
    \cup {MError(Bytes(k, 1, n)) : n \in Lens}
    \cup {MLogin(Bytes(k, 1, n)) : n \in Lens}
    \cup {MRegister(r, Bytes(k, 1, n)) : r \in RegistrationIds, n \in Lens}
    \cup {MClose(id) : id \in StreamIds}

AllControls == UNION {Controls(k) : k \in 1..MaxMsgs}

\* (mutant) the data is not cut
ClampNothing(data) == data

\* Connection::write, lines 200-204: data is cut to MAX_PAYLOAD_SIZE bytes;
\* the count of bytes taken is what write returns
Clamp(data) ==
    IF data.len > MAX_PAYLOAD_SIZE THEN Bytes(data.src, data.from, MAX_PAYLOAD_SIZE)
    ELSE data

\* Connection::write, line 218: Ok(data.len()) of the data as cut
WriteReturn(data) == Clamp(data).len

\* Frame::payload is None for the kinds that are built without one
HasPayload(frm) == frm.kind \in {KindError, KindRegister, KindLogin, KindPayload}

\* (mutant) the size field is cut to one byte
SizeFieldU8(n) == n % 256

\* line 215: view.size_mut().write(data.len() as u16)
SizeField(n) == n % U16

\* FrameWriterHalf::write, lines 211-227: the header with kind, id and size,
\* then write_all of all the bytes of the payload
FrameWrite(frm) ==
    LET n == IF HasPayload(frm) THEN frm.payload.len ELSE 0 IN
    <<[hdr |-> TRUE, kind |-> frm.kind, id |-> frm.id, size |-> SizeField(n)]>>
    \o (IF n > 0
        THEN <<[hdr |-> FALSE, src |-> frm.payload.src, from |-> frm.payload.from,
                len |-> n]>>
        ELSE <<>>)

\* FrameReaderHalf::read, lines 156-182, on a transport that starts with a
\* header h: the frame, and what is left on the transport.  With size = 0 the
\* payload is None; otherwise read_exact takes size bytes, which are the
\* first bytes that follow the header.
FrameRead(w) ==
    LET h == Head(w)
        rest == Tail(w)
    IN IF h.size = 0
       THEN [frm |-> Frame(h.kind, h.id, Bytes(0, 1, 0)), left |-> rest]
       ELSE LET d == Head(rest) IN
            [frm |-> Frame(h.kind, h.id, Bytes(d.src, d.from, h.size)),
             left |-> IF d.len > h.size
                      THEN <<[d EXCEPT !.from = @ + h.size, !.len = @ - h.size]>>
                           \o Tail(rest)
                      ELSE Tail(rest)]

\* the bytes that follow a header on the transport are payload bytes, at
\* least as many as its size field says
Framed(w) ==
    /\ w # <<>> /\ Head(w).hdr
    /\ Head(w).size > 0 =>
          /\ Len(w) >= 2 /\ ~w[2].hdr /\ w[2].len >= Head(w).size

\* Connection::control, lines 145-182, called as the next message
CodecControl(ctl) ==
    /\ Len(cwrote) < MaxMsgs
    /\ ctl \in Controls(Len(cwrote) + 1)
    /\ cwrote' = Append(cwrote, ctl)
    /\ cwire' = cwire \o FrameWrite(ControlFrame(ctl))
    /\ UNCHANGED <<cgot, cerr, sessVars, wireVars, serveVars, srvVars, encVars, typeVars, loadVars, lockVars, logVars>>

\* Connection::write, lines 199-219, called with n bytes as the next message:
\* the message written is the part of the data that write reports as taken
CodecWrite(id, n) ==
    /\ Len(cwrote) < MaxMsgs
    /\ LET data == Clamp(Bytes(Len(cwrote) + 1, 1, n)) IN
          /\ cwrote' = Append(cwrote, MPayload(id, data))
          /\ cwire' = cwire \o FrameWrite(PayloadFrame(id, data))
    /\ UNCHANGED <<cgot, cerr, sessVars, wireVars, serveVars, srvVars, encVars, typeVars, loadVars, lockVars, logVars>>

\* The peer ends the channel with a Terminate frame (kind 6, id 0, no
\* payload), which no function of Connection builds but read() decodes
\* (wire/mod.rs:238); it goes through the same frame writer
CodecTerminate ==
    /\ Len(cwrote) < MaxMsgs
    /\ cwrote' = Append(cwrote, MTerminate)
    /\ cwire' = cwire \o FrameWrite(Frame(KindTerminate, 0, ""))
    /\ UNCHANGED <<cgot, cerr, sessVars, wireVars, serveVars, srvVars, encVars, typeVars, loadVars, lockVars, logVars>>

\* Connection::read, lines 226-248: the next frame of the transport as a
\* message
CodecRead ==
    /\ cerr = "none" /\ Framed(cwire)
    /\ LET r == FrameRead(cwire) IN
          /\ cgot' = Append(cgot, FrameMessage(r.frm))
          /\ cwire' = r.left
    /\ UNCHANGED <<cwrote, cerr, sessVars, wireVars, serveVars, srvVars, encVars, typeVars, loadVars, lockVars, logVars>>

\* Connection::read when the transport does not start with a header: 7 bytes
\* of a payload are decrypted and parsed as one.  The kind byte is whatever
\* the payload holds there: read fails with InvalidHeader, or returns a
\* message that was never written (of which Terminate stands for all)
CodecReadLost ==
    /\ cerr = "none" /\ cwire # <<>> /\ ~Head(cwire).hdr
    /\ \/ cerr' = "InvalidHeader" /\ cgot' = cgot
       \/ cerr' = "lost" /\ cgot' = Append(cgot, MTerminate)
    /\ cwire' = <<>>
    /\ UNCHANGED <<cwrote, sessVars, wireVars, serveVars, srvVars, encVars, typeVars, loadVars, lockVars, logVars>>

InitCodec == SessionIdle /\ WireIdle /\ ServeIdle /\ LoadIdle /\ LockIdle /\ ServerIdle /\ CodecIdle /\ EncIdle /\ TypeIdle

NextCodec ==
    \/ \E ctl \in AllControls : CodecControl(ctl)
    \/ \E id \in StreamIds, n \in Lens : CodecWrite(id, n)
    \/ CodecTerminate
    \/ CodecRead
    \/ CodecReadLost

SpecCodec == InitCodec /\ [][NextCodec]_vars

(***************************************************************************)
(* The server: one task per agent (server/mod.rs 52-68)                    *)
(***************************************************************************)
\* Each handle_agent task owns its connection, its registration handle and its
\* Clients table: they are locals of the task (lines 77, 160, 164-169).  What
\* the tasks share are kp, auth and reg (lines 57-59), which they only read.
srvRest == <<sessVars, wireVars, serveVars, codecVars, encVars, typeVars, loadVars, lockVars, logVars>>

Closed(ss) == {i \in DOMAIN ss : ss[i].stage = "closed"}

\* (mutant) an error of a session ends the accept loop of the server
StopOnError(l, res) == IF res = "err" THEN "closed" ELSE l

\* lines 60-64: the result of handle_agent stays in the spawned task, which
\* logs an Err; nothing of it reaches the accept loop
AfterSession(l, res) == l

\* handle_agent returns: its locals are dropped (the agent connection closed,
\* the table with its entries, the registration handle)
Returned(se, res) ==
    [se EXCEPT !.stage = "closed", !.res = res, !.chan = "closed", !.table = {},
               !.handle = IF se.handle = "held" THEN "dropped" ELSE se.handle,
               !.logged = (res = "err")]

\* how handle_agent can return from a stage: every exit of the handshake and
\* of the login is an Err (lines 81-102); the registration stage also exits
\* with Ok(()) after it has sent an Error message (lines 117, 127, 132, 151)
StageResults(stage) ==
    CASE stage \in {"handshake", "login"} -> {"err"}
      [] stage = "registering" -> {"ok", "err"}
      [] OTHER -> {}

\* the stage that follows when nothing fails: accept (81), login (84-102),
\* registration (108-152), then bind and register (155-173)
NextStage(stage) ==
    CASE stage = "handshake" -> "login"
      [] stage = "login" -> "registering"
      [] stage = "registering" -> "serving"

\* lines 55-64: listener.accept() gives a socket: a task is spawned for it
SrvAccept(i) ==
    /\ listener = "listening"
    /\ sessions[i].stage = "none"
    /\ \A j \in Sessions : j < i => sessions[j].stage # "none"
    /\ sessions' = [sessions EXCEPT ![i] =
                      [NoSession EXCEPT !.stage = "handshake", !.res = "running",
                                        !.chan = "up",
                                        !.closedAtSpawn = Cardinality(Closed(sessions))]]
    /\ UNCHANGED <<listener, srvRest>>

\* line 55: listener.accept() gives an Err: the loop ends and start returns
SrvAcceptErr ==
    /\ listener = "listening"
    /\ listener' = "closed"
    /\ UNCHANGED <<sessions, srvRest>>

\* handle_agent gets through a stage; entering SERVING it holds the handle of
\* its registration and an empty Clients table
SessAdvance(i) ==
    /\ sessions[i].stage \in {"handshake", "login", "registering"}
    /\ sessions[i].chan = "up"
    /\ sessions' = [sessions EXCEPT
                      ![i].stage = NextStage(@),
                      ![i].handle = IF sessions[i].stage = "registering"
                                    THEN "held" ELSE @]
    /\ UNCHANGED <<listener, srvRest>>

\* handle_agent returns before SERVING
SessReturn(i, res) ==
    /\ res \in StageResults(sessions[i].stage)
    /\ sessions' = [sessions EXCEPT ![i] = Returned(@, res)]
    /\ listener' = AfterSession(listener, res)
    /\ UNCHANGED srvRest

\* lines 181-222: a public client of session i is accepted
SessClient(i, p) ==
    /\ sessions[i].stage = "serving" /\ p \notin sessions[i].table
    /\ sessions' = [sessions EXCEPT ![i].table = @ \cup {p}]
    /\ UNCHANGED <<listener, srvRest>>

\* lines 212, 282, 287: an entry of session i is removed
SessClientGone(i, p) ==
    /\ sessions[i].stage = "serving" /\ p \in sessions[i].table
    /\ sessions' = [sessions EXCEPT ![i].table = @ \ {p}]
    /\ UNCHANGED <<listener, srvRest>>

\* the agent of session i is gone
SessAgentGone(i) ==
    /\ sessions[i].stage = "serving" /\ sessions[i].chan = "up"
    /\ sessions' = [sessions EXCEPT ![i].chan = "down"]
    /\ UNCHANGED <<listener, srvRest>>

\* lines 177-188, 227-230: the accept loop of session i ends (its agent is
\* gone, or its accept failed) and handle_agent returns Ok(())
SessEnd(i) ==
    /\ sessions[i].stage = "serving"
    /\ sessions' = [sessions EXCEPT ![i] = Returned(@, "ok")]
    /\ listener' = AfterSession(listener, "ok")
    /\ UNCHANGED srvRest

InitServer == SessionIdle /\ WireIdle /\ ServeIdle /\ LoadIdle /\ LockIdle /\ ServerIdle /\ CodecIdle /\ EncIdle /\ TypeIdle

NextServer ==
    \/ \E i \in Sessions : SrvAccept(i)
    \/ SrvAcceptErr
    \/ \E i \in Sessions : SessAdvance(i)
    \/ \E i \in Sessions, res \in {"ok", "err"} : SessReturn(i, res)
    \/ \E i \in Sessions, p \in Ports : SessClient(i, p)
    \/ \E i \in Sessions, p \in Ports : SessClientGone(i, p)
    \/ \E i \in Sessions : SessAgentGone(i)
    \/ \E i \in Sessions : SessEnd(i)

SpecServer == InitServer /\ [][NextServer]_vars

(***************************************************************************)
(* The encrypted transport (wire/encrypt.rs), between Client::negotiate /   *)
(* Server::accept and the frames read and written on both ends.            *)
(*                                                                         *)
(* secp256k1 is a cyclic group of prime order; it is modelled by the       *)
(* additive group of integers modulo CurveOrder with generator 1, where a   *)
(* scalar multiple of a point is a product.  SHA-512 is an injective tag.   *)
(* A ChaCha20 state is its keystream position (the key and nonce are the    *)
(* peer's shared secret and never change).                                  *)
(***************************************************************************)
PrivateKeys == 1..(CurveOrder - 1)

\* Keypair::public_key: the secret scalar times the generator
PublicKey(sk) == sk % CurveOrder

\* ecdh::shared_secret_point
SharedSecretPoint(pk, sk) == (sk * pk) % CurveOrder

Sha512(point) == [sha512 |-> point]

\* (mutant) the point is computed from the peer's own public key
sharedOwnKey(kp, pk) == Sha512(SharedSecretPoint(PublicKey(kp), kp))

\* shared(kp, pk)
shared(kp, pk) == Sha512(SharedSecretPoint(pk, kp))

\* cipher.apply_keystream(buf) on a buffer of n bytes
ApplyKeystream(pos, n) == pos + n

\* (mutant) the seek leaves the cipher where the keystream was applied to
SeekIgnored(pos, to) == pos

\* cipher.seek(to)
Seek(pos, to) == to

\* Encrypted::new: a cipher at keystream position 0
EncryptedNew == [st |-> "whole", cipher |-> 0, rcipher |-> 0, wcipher |-> 0]

\* the cipher poll_read of this Encrypted value works on
ReadCipher(e) == IF e.st = "split" THEN "rcipher" ELSE "cipher"

\* the cipher poll_write of this Encrypted value works on
WriteCipher(e) == IF e.st = "split" THEN "wcipher" ELSE "cipher"

\* payload sizes of the frames sent in this part of the model
EncPayloads == {0, MaxEncPayload}

\* buf.filled_mut() after the inner poll_read has added c bytes to a ReadBuf
\* that held filled bytes: everything filled so far
FilledMut(filled, c) == filled + c

\* Server::accept: the client's key has been read, the shared secret is
\* derived and the gateway's handshake written
EncAccept ==
    /\ enc["gateway"].st = "raw"
    /\ secret' = [secret EXCEPT
                    !["gateway"] = shared(keypair["gateway"],
                                          PublicKey(keypair["agent"]))]
    /\ enc' = [enc EXCEPT !["gateway"] = EncryptedNew]
    /\ UNCHANGED <<keypair, tx, rx, net, frames, turn, round, posted>>
    /\ UNCHANGED <<sessVars, wireVars, serveVars, srvVars, codecVars, typeVars, loadVars, lockVars, logVars>>

\* Client::negotiate: the gateway's handshake has been read
EncNegotiate ==
    /\ enc["agent"].st = "raw"
    /\ enc["gateway"].st # "raw"
    /\ secret' = [secret EXCEPT
                    !["agent"] = shared(keypair["agent"],
                                        PublicKey(keypair["gateway"]))]
    /\ enc' = [enc EXCEPT !["agent"] = EncryptedNew]
    /\ UNCHANGED <<keypair, tx, rx, net, frames, turn, round, posted>>
    /\ UNCHANGED <<sessVars, wireVars, serveVars, srvVars, codecVars, typeVars, loadVars, lockVars, logVars>>

\* a frame write begins: write_all of the header, then of the payload.
\* Before the split the agent sends a control and the gateway answers it;
\* after the split both ends write when they like.
FrameStart(p, n) ==
    /\ tx[p] = <<>>
    /\ \/ /\ enc[p].st = "whole" /\ p = "agent"
          /\ turn = "agent" /\ round < Rounds
          /\ turn' = "request"
          /\ UNCHANGED <<round, posted>>
       \/ /\ enc[p].st = "whole" /\ p = "gateway"
          /\ turn = "gateway"
          /\ turn' = "reply"
          /\ round' = round + 1
          /\ UNCHANGED posted
       \/ /\ enc[p].st = "split"
          /\ posted[p] < MaxEncFrames
          /\ posted' = [posted EXCEPT ![p] = @ + 1]
          /\ UNCHANGED <<turn, round>>
    /\ tx' = [tx EXCEPT ![p] = IF n = 0 THEN <<FRAME_HEADER_SIZE>>
                               ELSE <<FRAME_HEADER_SIZE, n>>]
    /\ frames' = [frames EXCEPT ![Other(p)] = Append(@, n)]
    /\ UNCHANGED <<keypair, secret, enc, rx, net>>
    /\ UNCHANGED <<sessVars, wireVars, serveVars, srvVars, codecVars, typeVars, loadVars, lockVars, logVars>>

\* Encrypted::poll_write where the transport takes n of the m bytes
PollWrite(p, n) ==
    /\ tx[p] # <<>>
    /\ n <= Head(tx[p])
    /\ LET m == Head(tx[p])
           c == WriteCipher(enc[p])
           current == enc[p][c]
           applied == ApplyKeystream(current, m)
       IN
       /\ enc' = [enc EXCEPT ![p][c] = IF m > n THEN Seek(applied, current + n)
                                       ELSE applied]
       /\ tx' = [tx EXCEPT ![p] = IF m > n THEN <<m - n>> \o Tail(@)
                                  ELSE Tail(@)]
    /\ net' = [net EXCEPT ![Other(p)] = @ + n]
    /\ UNCHANGED <<keypair, secret, rx, frames, turn, round, posted>>
    /\ UNCHANGED <<sessVars, wireVars, serveVars, srvVars, codecVars, typeVars, loadVars, lockVars, logVars>>

\* Encrypted::poll_write where the transport is not ready
PollWritePending(p) ==
    /\ tx[p] # <<>>
    /\ LET c == WriteCipher(enc[p])
           current == enc[p][c]
           applied == ApplyKeystream(current, Head(tx[p]))
       IN enc' = [enc EXCEPT ![p][c] = Seek(applied, current)]
    /\ UNCHANGED <<keypair, secret, tx, rx, net, frames, turn, round, posted>>
    /\ UNCHANGED <<sessVars, wireVars, serveVars, srvVars, codecVars, typeVars, loadVars, lockVars, logVars>>

\* the read_exact the frame read of p is in (the header's when none is)
Reading(p) ==
    IF rx[p].stage = "idle"
    THEN [stage |-> "header", want |-> FRAME_HEADER_SIZE, filled |-> 0]
    ELSE rx[p]

\* the frame read of p is being awaited
Expecting(p) ==
    \/ enc[p].st = "split"
    \/ enc[p].st = "whole" /\ p = "gateway" /\ turn = "request"
    \/ enc[p].st = "whole" /\ p = "agent" /\ turn = "reply"

\* a frame has been read whole
FrameDone(p) ==
    /\ rx' = [rx EXCEPT ![p] = NoRead]
    /\ turn' = IF enc[p].st = "whole"
               THEN (IF p = "gateway" THEN "gateway" ELSE "agent")
               ELSE turn

\* Encrypted::poll_read under read_exact, where the transport gives c bytes
PollRead(p, c) ==
    /\ Expecting(p)
    /\ c <= net[p]
    /\ LET r == Reading(p)
           k == ReadCipher(enc[p])
       IN
       /\ c <= r.want - r.filled
       /\ enc' = [enc EXCEPT ![p][k] =
                    ApplyKeystream(@, FilledMut(r.filled, c))]
       /\ IF r.filled + c < r.want
          THEN /\ rx' = [rx EXCEPT ![p] = [r EXCEPT !.filled = @ + c]]
               /\ UNCHANGED <<frames, turn>>
          ELSE IF r.stage = "header"
          THEN /\ frames' = [frames EXCEPT ![p] = Tail(@)]
               /\ IF Head(frames[p]) = 0
                  THEN FrameDone(p)
                  ELSE /\ rx' = [rx EXCEPT ![p] =
                                   [stage |-> "payload",
                                    want |-> Head(frames[p]), filled |-> 0]]
                       /\ UNCHANGED turn
          ELSE /\ FrameDone(p)
               /\ UNCHANGED frames
    /\ net' = [net EXCEPT ![p] = @ - c]
    /\ UNCHANGED <<keypair, secret, tx, round, posted>>
    /\ UNCHANGED <<sessVars, wireVars, serveVars, srvVars, codecVars, typeVars, loadVars, lockVars, logVars>>

\* Encrypted::split: both halves are built by Encrypted::new with the key
EncSplit(p) ==
    /\ enc[p].st = "whole"
    /\ round = Rounds
    /\ tx[p] = <<>> /\ rx[p] = NoRead
    /\ \/ p = "gateway" /\ turn \in {"reply", "agent"}
       \/ p = "agent" /\ turn = "agent"
    /\ enc' = [enc EXCEPT ![p] = [EncryptedNew EXCEPT !.st = "split"]]
    /\ UNCHANGED <<keypair, secret, tx, rx, net, frames, turn, round, posted>>
    /\ UNCHANGED <<sessVars, wireVars, serveVars, srvVars, codecVars, typeVars, loadVars, lockVars, logVars>>

InitCipher ==
    /\ SessionIdle /\ WireIdle /\ ServeIdle /\ LoadIdle /\ LockIdle /\ ServerIdle /\ CodecIdle /\ TypeIdle
    /\ keypair = [p \in Peers |-> IF p = "agent" THEN 2 ELSE 3]
    /\ secret = [p \in Peers |-> NoSecret]
    /\ enc = [p \in Peers |-> NoEncrypted]
    /\ tx = [p \in Peers |-> <<>>]
    /\ rx = [p \in Peers |-> NoRead]
    /\ net = [p \in Peers |-> 0]
    /\ frames = [p \in Peers |-> <<>>]
    /\ turn = "agent"
    /\ round = 0
    /\ posted = [p \in Peers |-> 0]

Chunks == 1..FRAME_HEADER_SIZE

NextCipher ==
    \/ EncAccept
    \/ EncNegotiate
    \/ \E p \in Peers, n \in EncPayloads : FrameStart(p, n)
    \/ \E p \in Peers, n \in Chunks : PollWrite(p, n)
    \/ \E p \in Peers : PollWritePending(p)
    \/ \E p \in Peers, c \in Chunks : PollRead(p, c)
    \/ \E p \in Peers : EncSplit(p)

SpecCipher == InitCipher /\ [][NextCipher]_vars

\* the handshake alone, for every pair of keypairs
InitKeys ==
    /\ SessionIdle /\ WireIdle /\ ServeIdle /\ LoadIdle /\ LockIdle /\ ServerIdle /\ CodecIdle /\ TypeIdle
    /\ keypair \in [Peers -> PrivateKeys]
    /\ secret = [p \in Peers |-> NoSecret]
    /\ enc = [p \in Peers |-> NoEncrypted]
    /\ tx = [p \in Peers |-> <<>>]
    /\ rx = [p \in Peers |-> NoRead]
    /\ net = [p \in Peers |-> 0]
    /\ frames = [p \in Peers |-> <<>>]
    /\ turn = "agent"
    /\ round = 0
    /\ posted = [p \in Peers |-> 0]

NextKeys == EncAccept \/ EncNegotiate

SpecKeys == InitKeys /\ [][NextKeys]_vars

(***************************************************************************)
(* Stream ids (wire/mod.rs, mod types)                                     *)
(***************************************************************************)
\* Stream::registration: (self.0 >> 16) as u16
StreamRegistration(id) == (id \div U16) % U16

\* Stream::port: self.0 as u16
StreamPort(id) == id % U16

\* the registrations, ports and raw ids that streams are built from (ids up
\* to 2^31 - 1, the largest integer the checker computes with)
Regs16 == {0, 1, 4386, (U16 \div 2) - 1}
Ports16 == {0, 1, 2, 13124, U16 - 1}
RawIds == {0, 287454020, U16 + 1}

\* Stream::new(Registration(r), p), and what its accessors return
StreamCreate(r, p) ==
    /\ Cardinality(streams) < MaxStreams
    /\ LET v == StreamNew(r, p) IN
       streams' = streams \cup
          {[via |-> "new", r |-> r, p |-> p, id |-> v,
            registration |-> StreamRegistration(v), port |-> StreamPort(v)]}
    /\ UNCHANGED <<sessVars, wireVars, serveVars, srvVars, codecVars, encVars, loadVars, lockVars, logVars>>

\* Stream::from(v), and what its accessors return
StreamFrom(v) ==
    /\ Cardinality(streams) < MaxStreams
    /\ streams' = streams \cup
          {[via |-> "from", r |-> 0, p |-> 0, id |-> v,
            registration |-> StreamRegistration(v), port |-> StreamPort(v)]}
    /\ UNCHANGED <<sessVars, wireVars, serveVars, srvVars, codecVars, encVars, loadVars, lockVars, logVars>>

InitStream ==
    /\ SessionIdle /\ WireIdle /\ ServeIdle /\ LoadIdle /\ LockIdle /\ ServerIdle /\ CodecIdle /\ EncIdle
    /\ streams = {}

NextStream ==
    \/ \E r \in Regs16, p \in Ports16 : StreamCreate(r, p)
    \/ \E v \in RawIds : StreamFrom(v)

SpecStream == InitStream /\ [][NextStream]_vars

(***************************************************************************)
(* The table mutex and the writer mutex of an endpoint                     *)
(* (server/mod.rs 175-227, 256-326; agent/mod.rs 60-181)                   *)
(***************************************************************************)
lockRest == <<sessVars, wireVars, serveVars, srvVars, codecVars, encVars, typeVars, loadVars,
              logVars>>

\* Mutex::lock().await by task t in the state (h, q) of the mutexes: a free
\* mutex is taken at once, otherwise t waits at the end of the queue
MutexLock(t, m, h, q) ==
    IF h[m] = NoTask THEN [h |-> [h EXCEPT ![m] = t], q |-> q]
    ELSE [h |-> h, q |-> [q EXCEPT ![m] = Append(@, t)]]

\* drop of a MutexGuard: the mutex goes to the first waiter
MutexUnlock(m, h, q) ==
    IF q[m] = <<>> THEN [h |-> [h EXCEPT ![m] = NoTask], q |-> q]
    ELSE [h |-> [h EXCEPT ![m] = Head(q[m])], q |-> [q EXCEPT ![m] = Tail(@)]]

\* the future of task t is dropped: its lock requests are withdrawn and the
\* guards it holds are dropped
TaskDropped(t, h, q) ==
    LET w == [m \in Mutexes |-> SelectSeq(q[m], LAMBDA x : x # t)] IN
    [h |-> [m \in Mutexes |-> IF h[m] # t THEN h[m]
                              ELSE IF w[m] = <<>> THEN NoTask ELSE Head(w[m])],
     q |-> [m \in Mutexes |-> IF h[m] = t /\ w[m] # <<>> THEN Tail(w[m]) ELSE w[m]]]

Running(t) == tpc[t] \in {"read", "write", "close", "remove"}

\* Drop of the entries of the pumps in S: their handlers are aborted
AbortTasks(S) == [t \in Tasks |-> taborted[t] \/ (t \in S /\ Running(t))]

\* the pump that the next spawn starts
Unspawned == {p \in LockPumpIds : tpc[p] = "none" /\ \A d \in LockPumpIds : d < p => tpc[d] # "none"}

\* what a removal by key may find: nothing, or the entry of a pump
Found == {{}} \cup {{p} : p \in entries}

\* (mutant) the guard of the writer outlives the statement that sent Close
AfterCloseKept(h, q) == [h |-> h, q |-> q]

\* agent/mod.rs 153-157, server/mod.rs 213: the guard of the writer is a
\* temporary of the statement that sends Close
AfterClose(h, q) == MutexUnlock("writer", h, q)

\* a pump's read returned (server/mod.rs 313-324, agent/mod.rs 174-179): data,
\* and it asks for the writer; or the end, and it asks for the mutex of its
\* first exit step (gateway: the table, line 212; agent: the writer, line 153)
LkPumpRead(p) ==
    /\ tpc[p] = "read"
    /\ \E l \in {"write", IF side = "gateway" THEN "remove" ELSE "close"} :
         LET r == MutexLock(p, IF l = "remove" THEN "table" ELSE "writer", holder, waitq)
         IN  /\ holder' = r.h /\ waitq' = r.q
             /\ tpc' = [tpc EXCEPT ![p] = l]
    /\ UNCHANGED <<lockRest, side, taborted, entries, cur>>

\* the frame is written under the writer's guard; the guard is dropped, and
\* on an error the pump goes to its exit steps
LkPumpWrite(p) ==
    /\ tpc[p] = "write" /\ holder["writer"] = p
    /\ LET u == MutexUnlock("writer", holder, waitq) IN
       \/ /\ holder' = u.h /\ waitq' = u.q
          /\ tpc' = [tpc EXCEPT ![p] = "read"]
       \/ LET l == IF side = "gateway" THEN "remove" ELSE "close"
              r == MutexLock(p, IF l = "remove" THEN "table" ELSE "writer", u.h, u.q)
          IN  /\ holder' = r.h /\ waitq' = r.q
              /\ tpc' = [tpc EXCEPT ![p] = l]
    /\ UNCHANGED <<lockRest, side, taborted, entries, cur>>

\* Close is written under the writer's guard; the agent's pump then asks for
\* the table (line 160), the gateway's pump is done
LkPumpClose(p) ==
    /\ tpc[p] = "close" /\ holder["writer"] = p
    /\ LET u == AfterClose(holder, waitq) IN
       IF side = "gateway"
       THEN /\ holder' = u.h /\ waitq' = u.q
            /\ tpc' = [tpc EXCEPT ![p] = "done"]
       ELSE LET r == MutexLock(p, "table", u.h, u.q) IN
            /\ holder' = r.h /\ waitq' = r.q
            /\ tpc' = [tpc EXCEPT ![p] = "remove"]
    /\ UNCHANGED <<lockRest, side, taborted, entries, cur>>

\* the entry is removed under the table's guard (dropping it aborts the
\* pump's own handler); the gateway's pump then asks for the writer (line
\* 213), the agent's pump is done
LkPumpRemove(p) ==
    /\ tpc[p] = "remove" /\ holder["table"] = p
    /\ entries' = entries \ {p}
    /\ taborted' = AbortTasks({p} \cap entries)
    /\ LET u == MutexUnlock("table", holder, waitq) IN
       IF side = "agent"
       THEN /\ holder' = u.h /\ waitq' = u.q
            /\ tpc' = [tpc EXCEPT ![p] = "done"]
       ELSE LET r == MutexLock(p, "writer", u.h, u.q) IN
            /\ holder' = r.h /\ waitq' = r.q
            /\ tpc' = [tpc EXCEPT ![p] = "close"]
    /\ UNCHANGED <<lockRest, side, cur>>

\* an aborted pump is dropped at an await
LkPumpDie(p) ==
    /\ taborted[p] /\ Running(p)
    /\ LET r == TaskDropped(p, holder, waitq) IN holder' = r.h /\ waitq' = r.q
    /\ tpc' = [tpc EXCEPT ![p] = "dead"]
    /\ UNCHANGED <<lockRest, side, taborted, entries, cur>>

\* task t asks for the table mutex and moves on to the position where it holds it
LoopLocks(t, from, to) ==
    /\ tpc[t] = from
    /\ LET r == MutexLock(t, "table", holder, waitq) IN holder' = r.h /\ waitq' = r.q
    /\ tpc' = [tpc EXCEPT ![t] = to]
    /\ UNCHANGED <<lockRest, side, taborted, entries, cur>>

\* server/mod.rs 181-201: a connection is accepted and the accept loop asks
\* for Clients
LkAccept == side = "gateway" /\ Unspawned # {} /\ LoopLocks(TLoop, "select", "spawn")

\* lines 203-214: the pump is spawned under the guard
LkSpawn ==
    /\ side = "gateway" /\ tpc[TLoop] = "spawn" /\ holder["table"] = TLoop
    /\ \E p \in Unspawned :
         /\ tpc' = [tpc EXCEPT ![p] = "read", ![TLoop] = "insert"]
         /\ cur' = p
    /\ UNCHANGED <<lockRest, side, holder, waitq, taborted, entries>>

\* lines 216-223: the entry is inserted and the guard dropped
LkInsert ==
    /\ side = "gateway" /\ tpc[TLoop] = "insert" /\ holder["table"] = TLoop
    /\ entries' = entries \cup {cur} /\ cur' = 0
    /\ LET u == MutexUnlock("table", holder, waitq) IN holder' = u.h /\ waitq' = u.q
    /\ tpc' = [tpc EXCEPT ![TLoop] = "select"]
    /\ UNCHANGED <<lockRest, side, taborted>>

\* lines 177-180, 185-188, 227: the loop breaks and asks for Clients
LkLoopExit == side = "gateway" /\ LoopLocks(TLoop, "select", "clear")

\* line 227: clear() under the guard
LkClear ==
    /\ side = "gateway" /\ tpc[TLoop] = "clear" /\ holder["table"] = TLoop
    /\ entries' = {} /\ taborted' = AbortTasks(entries)
    /\ LET u == MutexUnlock("table", holder, waitq) IN holder' = u.h /\ waitq' = u.q
    /\ tpc' = [tpc EXCEPT ![TLoop] = "done"]
    /\ UNCHANGED <<lockRest, side, cur>>

\* lines 260-288: the demux read a Payload or a Close and asks for Clients,
\* or it ends
LkDemuxRead ==
    /\ side = "gateway"
    /\ \/ LoopLocks(TDemux, "read", "dwrite")
       \/ LoopLocks(TDemux, "read", "dclose")
       \/ /\ tpc[TDemux] = "read" /\ tpc' = [tpc EXCEPT ![TDemux] = "done"]
          /\ UNCHANGED <<lockRest, side, holder, waitq, taborted, entries, cur>>

\* lines 272-288: under the guard, write_all to the client (on an error the
\* entry is removed) or the removal on Close
LkDemuxTable ==
    /\ side = "gateway" /\ tpc[TDemux] \in {"dwrite", "dclose"} /\ holder["table"] = TDemux
    /\ \E S \in Found : entries' = entries \ S /\ taborted' = AbortTasks(S)
    /\ LET u == MutexUnlock("table", holder, waitq) IN holder' = u.h /\ waitq' = u.q
    /\ tpc' = [tpc EXCEPT ![TDemux] = "read"]
    /\ UNCHANGED <<lockRest, side, cur>>

\* agent/mod.rs 70-73, 126-127: the serve loop read a Payload or a Close and
\* asks for Backends, or it ends
LkServeRead ==
    /\ side = "agent"
    /\ \/ LoopLocks(TLoop, "read", "payload")
       \/ LoopLocks(TLoop, "read", "sclose")
       \/ /\ tpc[TLoop] = "read" /\ tpc' = [tpc EXCEPT ![TLoop] = "done"]
          /\ UNCHANGED <<lockRest, side, holder, waitq, taborted, entries, cur>>

\* lines 74-102: under the guard of Backends: the entry is there; or the
\* connect succeeds and the pump is spawned; or the connect fails and the loop
\* asks for the writer, still holding Backends (lines 85-89)
LkServePayload ==
    /\ side = "agent" /\ tpc[TLoop] = "payload" /\ holder["table"] = TLoop
    /\ \/ \E p \in entries :
            /\ cur' = p /\ tpc' = [tpc EXCEPT ![TLoop] = "swrite"]
            /\ UNCHANGED <<holder, waitq>>
       \/ \E p \in Unspawned :
            /\ cur' = p /\ tpc' = [tpc EXCEPT ![p] = "read", ![TLoop] = "sinsert"]
            /\ UNCHANGED <<holder, waitq>>
       \/ LET r == MutexLock(TLoop, "writer", holder, waitq) IN
            /\ holder' = r.h /\ waitq' = r.q
            /\ cur' = 0 /\ tpc' = [tpc EXCEPT ![TLoop] = "cfail"]
    /\ UNCHANGED <<lockRest, side, taborted, entries>>

\* lines 104-110: the entry is inserted
LkServeInsert ==
    /\ side = "agent" /\ tpc[TLoop] = "sinsert" /\ holder["table"] = TLoop
    /\ entries' = entries \cup {cur}
    /\ tpc' = [tpc EXCEPT ![TLoop] = "swrite"]
    /\ UNCHANGED <<lockRest, side, holder, waitq, taborted, cur>>

\* lines 114-121: write_all to the backend under the guard of Backends; on an
\* error the loop asks for the writer, still holding Backends
LkServeWrite ==
    /\ side = "agent" /\ tpc[TLoop] = "swrite" /\ holder["table"] = TLoop
    /\ \/ LET u == MutexUnlock("table", holder, waitq) IN
            /\ holder' = u.h /\ waitq' = u.q
            /\ cur' = 0 /\ tpc' = [tpc EXCEPT ![TLoop] = "read"]
       \/ LET r == MutexLock(TLoop, "writer", holder, waitq) IN
            /\ holder' = r.h /\ waitq' = r.q
            /\ cur' = cur /\ tpc' = [tpc EXCEPT ![TLoop] = "werr"]
    /\ UNCHANGED <<lockRest, side, taborted, entries>>

\* lines 85-91, 117-124: Close is written under both guards; the writer's
\* guard is dropped, after a write error the entry is removed, and the guard
\* of Backends is dropped at the end of the turn; when the Close cannot be
\* written serve returns and both guards are dropped
LkServeSendClose ==
    /\ side = "agent" /\ tpc[TLoop] \in {"cfail", "werr"} /\ holder["writer"] = TLoop
    /\ LET u == MutexUnlock("writer", holder, waitq)
           v == MutexUnlock("table", u.h, u.q)
           S == IF tpc[TLoop] = "werr" THEN {cur} ELSE {}
       IN  /\ holder' = v.h /\ waitq' = v.q
           /\ \/ /\ entries' = entries \ S /\ taborted' = AbortTasks(S)
                 /\ tpc' = [tpc EXCEPT ![TLoop] = "read"]
              \/ /\ UNCHANGED <<entries, taborted>>
                 /\ tpc' = [tpc EXCEPT ![TLoop] = "done"]
    /\ cur' = 0
    /\ UNCHANGED <<lockRest, side>>

\* lines 126-128: the removal on Close, under the guard
LkServeRemove ==
    /\ side = "agent" /\ tpc[TLoop] = "sclose" /\ holder["table"] = TLoop
    /\ \E S \in Found : entries' = entries \ S /\ taborted' = AbortTasks(S)
    /\ LET u == MutexUnlock("table", holder, waitq) IN holder' = u.h /\ waitq' = u.q
    /\ tpc' = [tpc EXCEPT ![TLoop] = "read"]
    /\ UNCHANGED <<lockRest, side, cur>>

\* either endpoint at the start of its serving phase
InitLocks ==
    /\ SessionIdle /\ WireIdle /\ ServeIdle /\ LoadIdle /\ ServerIdle /\ CodecIdle /\ EncIdle
    /\ TypeIdle
    /\ side \in {"agent", "gateway"}
    /\ holder = [m \in Mutexes |-> NoTask]
    /\ waitq = [m \in Mutexes |-> <<>>]
    /\ tpc = [t \in Tasks |-> IF t = TLoop THEN (IF side = "gateway" THEN "select" ELSE "read")
                              ELSE IF t = TDemux /\ side = "gateway" THEN "read"
                              ELSE "none"]
    /\ taborted = [t \in Tasks |-> FALSE]
    /\ entries = {}
    /\ cur = 0

LoopStep ==
    \/ LkAccept \/ LkSpawn \/ LkInsert \/ LkLoopExit \/ LkClear
    \/ LkServeRead \/ LkServePayload \/ LkServeInsert \/ LkServeWrite
    \/ LkServeSendClose \/ LkServeRemove

DemuxStep == LkDemuxRead \/ LkDemuxTable

LkPumpStep(p) == LkPumpRead(p) \/ LkPumpWrite(p) \/ LkPumpClose(p) \/ LkPumpRemove(p)

NextLocks ==
    \/ LoopStep
    \/ DemuxStep
    \/ \E p \in LockPumpIds : LkPumpStep(p)
    \/ \E p \in LockPumpIds : LkPumpDie(p)

SpecLocks == InitLocks /\ [][NextLocks]_vars

\* task t holds a mutex, or was handed one
HoldsAny(t) == \E m \in Mutexes : holder[m] = t

\* A task that holds a mutex takes its next step: the socket operation it
\* performs under the guard completes.
LiveLocks ==
    /\ SpecLocks
    /\ WF_vars(LoopStep /\ HoldsAny(TLoop))
    /\ WF_vars(DemuxStep /\ HoldsAny(TDemux))
    /\ \A p \in LockPumpIds : WF_vars(LkPumpStep(p) /\ HoldsAny(p))

(***************************************************************************)
(* Properties of the session up to SERVING                                 *)
(***************************************************************************)
Last(q) == q[Len(q)]
Range(q) == {q[i] : i \in 1..Len(q)}

\* C1: Registerer.register is invoked at most once in a session, and only
\* after authenticate succeeded for the session's Login token and authorize
\* returned true for the user and exactly the name passed to register.
C1_RegisterOnceAfterAuth ==
    /\ Len(regLog) <= 1
    /\ \A i \in 1..Len(regLog) :
         /\ <<token, TRUE>> \in Range(authLog)
         /\ user # NoUser
         /\ <<user, regLog[i][1], "true">> \in Range(authzLog)

C1_Witness ==
    /\ Len(regLog) = 1 /\ authImpl = "Custom" /\ regLog[1][1] = "other"
    /\ gpc = "serving"

\* C2: the session binds the public listener and calls Registerer.register
\* only after it has read FinishRegister; a read error or EOF in REGISTERING
\* ends the session with no listener bound and no call of register.
C2_ServingOnlyAfterFinishRegister ==
    /\ (gpc = "serving" \/ bound # 0 \/ regLog # <<>>) => loopExit = "finish"
    /\ loopExit = "readerr" => (bound = 0 /\ regLog = <<>> /\ gpc # "serving")

\* C8: the shipped agent against accepting hooks: neither side ever gets a
\* message it does not expect, and the exchange leads to the gateway calling
\* Registerer.register(name, port) with the agent's name and the port of the
\* listener it bound, and to SERVING when register returns a handle (unless
\* the connection breaks or the bind fails).
HooksAccepted ==
    /\ \A e \in Range(authLog) : e[2] = TRUE
    /\ \A e \in Range(authzLog) : e[3] = "true"

SessionFault == link = "down" \/ ~HooksAccepted \/ (gpc = "closed" /\ gres = "IO")

RegisteredAsAsked ==
    /\ apc = "serve" /\ ares = "ok"
    /\ regLog # <<>> /\ bound \in ListenPorts
    /\ regLog[1][1] = aname /\ regLog[1][2] = bound
    /\ (gpc = "serving" \/ regLog[1][3] = "err")

C8_LoginRegisterCompletes ==
    /\ [](peer = "agent" =>
            /\ unexpected = <<>>
            /\ ares \notin {"UnexpectedMessage", "InvalidHeader", "InvalidMagic",
                            "InvalidVersion", "Encryption"}
            /\ (HooksAccepted /\ link = "up" => ares # "Remote"))
    /\ ((peer = "agent") ~> (RegisteredAsAsked \/ SessionFault))

C8_Witness ==
    /\ peer = "agent" /\ RegisteredAsAsked /\ gpc = "serving" /\ link = "up"
    /\ gsent = <<ControlFrame(MOk), ControlFrame(MOk)>>

\* C9 (as claimed): a first message that is not Login is answered with
\* Error("unexpected message"), a message other than Register/FinishRegister in
\* REGISTERING with Error(UnexpectedMessage); the session fails, no hook is
\* called for the message and SERVING is never reached.
UnexpectedHandled(loginText) ==
    unexpected # <<>> =>
        /\ Len(unexpected) = 1
        /\ gpc = "closed" /\ gres \in {"UnexpectedMessage", "IO"}
        /\ gres = "UnexpectedMessage" =>
              /\ gsent # <<>>
              /\ Last(gsent) = ControlFrame(MError(
                     IF unexpected[1][1] = "login" THEN loginText
                     ELSE ErrUnexpectedMessage))
        /\ unexpected[1][1] = "login" => (authLog = <<>> /\ authzLog = <<>>)
        /\ bound = 0 /\ regLog = <<>> /\ handle = "none"

C9_AsClaimed == UnexpectedHandled("unexpected message")

\* C9 (amended): the text sent in both cases is the display text of
\* Error::UnexpectedMessage, "received unexpected message"; the step that
\* rejects the message calls no hook.
C9_UnexpectedMessageFails ==
    /\ [](UnexpectedHandled("received unexpected message"))
    /\ [][unexpected' # unexpected =>
            UNCHANGED <<authLog, authzLog, regLog, bound, registrations>>]_vars

C9_Witness ==
    /\ Len(unexpected) = 1 /\ unexpected[1][1] = "registering"
    /\ gres = "UnexpectedMessage" /\ registrations # <<>>

\* C10: when authenticate fails the gateway sends Error(err) and the session
\* fails: it never sends Ok, processes no Register, and never calls authorize
\* or Registerer.register.
C10_AuthenticateFailureEndsSession ==
    (\E e \in Range(authLog) : e[2] = FALSE) =>
        /\ gpc = "closed" /\ gres \in {"AuthenticationError", "IO"}
        /\ gres = "AuthenticationError" =>
              /\ gsent # <<>>
              /\ Last(gsent) \in {ControlFrame(MError(ErrAuthInvalidToken)),
                                  ControlFrame(MError(ErrAuthCustom))}
        /\ \A f \in Range(gsent) : f.kind # KindOk
        /\ user = NoUser /\ registrations = <<>> /\ loopExit = "none"
        /\ authzLog = <<>> /\ regLog = <<>> /\ bound = 0

C10_Witness ==
    /\ authImpl = "AuthorizeAll" /\ authLog = << <<"fail", FALSE>> >>
    /\ gres = "AuthenticationError"
    /\ a2g # <<>> /\ Head(a2g).kind = KindRegister

(***************************************************************************)
(* Properties of the bytes on the agent channel                            *)
(***************************************************************************)
RECURSIVE WholeFrames(_)
WholeFrames(b) ==
    IF b = <<>> THEN TRUE
    ELSE LET n == b[1][4] IN
         /\ Len(b) >= n
         /\ \A i \in 1..n : b[i] = <<b[1][1], b[1][2], i, n>>
         /\ WholeFrames(SubSeq(b, n + 1, Len(b)))

\* bytes of the frame that the holder of the writer mutex is writing
InProgress == IF wlock = {} THEN 0 ELSE (CHOOSE w \in wlock : TRUE)

\* C3: the byte stream seen by the peer is always a concatenation of whole
\* frames (7 header bytes and exactly `size` payload bytes each), followed at
\* most by the first bytes of the one frame that the current holder of the
\* writer mutex is in the middle of writing.
C3_FramesContiguous ==
    LET open == IF wlock = {} THEN 0 ELSE wst[InProgress].pos
        whole == Len(wire) - open
    IN /\ whole >= 0
       /\ WholeFrames(SubSeq(wire, 1, whole))
       /\ \A i \in 1..open :
            wire[whole + i] = <<InProgress, wst[InProgress].n + 1, i,
                                FrameLen(wst[InProgress])>>

\* the gateway, in REGISTERING with n registrations recorded and the agent
\* channel up, takes a Register frame off the channel in this step
ReadsRegister(n) ==
    /\ gpc = "registering" /\ Len(registrations) = n /\ link = "up"
    /\ a2g # <<>> /\ Head(a2g).kind = KindRegister /\ a2g' = Tail(a2g)

GwSends(ctl) == gsent' = Append(gsent, ControlFrame(ctl))

\* C11: a Register after one was accepted makes the gateway send
\* Error("only one name registration is allowed") and end the session with
\* success: authorize is not called for it, nothing more is recorded, no
\* listener is bound and Registerer.register is not called.
C11_SecondRegisterRejected ==
    [][ReadsRegister(1) =>
          /\ GwSends(MError(TxtOnlyOne))
          /\ gpc' = "closed" /\ gres' = "ok"
          /\ UNCHANGED <<authzLog, registrations, bound, regLog, handle>>]_vars

C11_Witness ==
    /\ gpc = "closed" /\ gres = "ok" /\ Len(registrations) = 1
    /\ gsent # <<>> /\ Last(gsent) = ControlFrame(MError(TxtOnlyOne))
    /\ Len(authzLog) = 1 /\ bound = 0 /\ regLog = <<>>

\* C12: a Register while nothing is recorded: authorize is called for the
\* user and the name; on false the gateway sends Error("not authorized to use
\* this domain") and ends the session, on an error it sends Error(err) and
\* ends the session, nothing being recorded in either case; on true it
\* records (id, name), sends Ok and stays in REGISTERING.
C12_AuthorizeDecidesRegister ==
    [][ReadsRegister(0) =>
          /\ Len(authzLog') = Len(authzLog) + 1
          /\ LET z == Last(authzLog') IN
               /\ z[1] = user /\ z[2] = Head(a2g).payload
               /\ z[3] = "false" =>
                    /\ GwSends(MError(TxtNotAuthorized))
                    /\ gpc' = "closed" /\ registrations' = <<>>
               /\ z[3] = "err" =>
                    /\ GwSends(MError(ErrHookIO))
                    /\ gpc' = "closed" /\ registrations' = <<>>
               /\ z[3] = "true" =>
                    /\ GwSends(MOk)
                    /\ gpc' = "registering"
                    /\ registrations' = <<<<Head(a2g).id % U16, Head(a2g).payload>>>>]_vars

C12_Witness ==
    /\ gpc = "closed" /\ registrations = <<>>
    /\ gsent # <<>> /\ Last(gsent) = ControlFrame(MError(TxtNotAuthorized))
    /\ Len(authzLog) = 1 /\ authzLog[1][3] = "false"

\* C13: FinishRegister with nothing recorded: the gateway sends
\* Error("missing name registration") and ends the session; no listener is
\* bound and Registerer.register is not called.
C13_FinishWithoutRegistration ==
    /\ []((loopExit = "finish" /\ registrations = <<>>)
            => (bound = 0 /\ regLog = <<>> /\ handle = "none" /\ gpc # "serving"))
    /\ [][(gpc = "finish" /\ loopExit = "finish" /\ registrations = <<>>
             /\ gpc' # gpc)
          => /\ gpc' = "closed"
             /\ link = "up" => (GwSends(MError(TxtMissing)) /\ gres' = "ok")]_vars

C13_Witness ==
    /\ loopExit = "finish" /\ registrations = <<>> /\ gpc = "closed"
    /\ gsent # <<>> /\ Last(gsent) = ControlFrame(MError(TxtMissing))
    /\ gres = "ok"

(***************************************************************************)
(* Claims about the serving phase                                          *)
(***************************************************************************)
PumpFinished(c) == pump[c].pc \in {"done", "dead"}

\* C4: when a gateway downstream pump ends on the public client's EOF or read
\* error, the stream's Clients entry is removed and, the agent channel being
\* alive, Close{stream} is sent to the agent.
C4_PumpEndSendsClose ==
    \A c \in Conns :
       (pump[c].ended \in {"eof", "error"} /\ PumpFinished(c) /\ link = "up")
       => (clients[StreamOfConn(c)] # c /\ pump[c].closed)

SessionEnded ==
    /\ exited /\ lpc = "done" /\ gpc = "closed" /\ handle = "dropped"
    /\ \A s \in Streams : clients[s] = 0
    /\ \A c \in Conns : ~Alive(pump[c]) /\ ~conn[c].rd /\ ~conn[c].wr

\* C5: once the agent connection is down during SERVING, the session
\* eventually ends: the demux has signalled the exit, the accept loop has
\* exited, no Clients entry is left, every pump is gone and every
\* public-client socket closed, and the registration handle is dropped.
C5_AgentEOFEndsSession ==
    (gpc = "serving" /\ link = "down") ~> SessionEnded

C5_Witness ==
    /\ SessionEnded /\ link = "down"
    /\ \E c \in Conns : conn[c].phase # "new"
    /\ \A c \in Conns :
          conn[c].phase # "new" => pump[c].pc = "dead" /\ pump[c].ended = "no"
    /\ Sum(conn, Conns) = 0

\* C6: an I/O error on a public-client or backend socket, on read or on
\* write, on the gateway or on the agent, ends with the stream's table entry
\* removed and Close{stream} sent to the peer.
C6_IOErrorRemovesAndCloses ==
    /\ \A c \in Conns :
          ((conn[c].werr \/ pump[c].ended = "error") /\ PumpFinished(c) /\ link = "up")
          => (clients[StreamOfConn(c)] # c /\ pump[c].closed)
    /\ \A b \in Backs :
          ((back[b].werr \/ bpump[b].ended = "error") /\ bpump[b].pc \in {"done", "dead"}
             /\ link = "up")
          => (backends[back[b].stream] # b /\ (bpump[b].closed \/ back[b].lclosed))

\* the chunks are numbered in the order in which they were read from their
\* source: out is the first chunks of source src, in order
IsPrefixOf(out, src) == \A i \in 1..Len(out) : out[i] = <<src, i>>

\* what a destination was written that came from one source is in the order
\* read and without repetition
InOrderOnce(out) ==
    \A i, j \in 1..Len(out) : (i < j /\ out[i][1] = out[j][1]) => out[i][2] < out[j][2]

\* C7 as claimed: what a destination socket was written is a prefix of what
\* was read from the source socket of its stream.
C7_AsClaimed ==
    /\ \A b \in Backs : \E c \in Conns : IsPrefixOf(back[b].out, c)
    /\ \A c \in Conns : \E b \in Backs : IsPrefixOf(conn[c].out, b)

\* C7: within one stream and one direction, what a destination socket was
\* written was read from a source socket of that stream, and the bytes of one
\* source appear in the order read, each at most once.
C7_OrderedNoDuplicates ==
    /\ \A b \in Backs :
          /\ InOrderOnce(back[b].out)
          /\ \A i \in 1..Len(back[b].out) :
                LET t == back[b].out[i] IN
                  /\ t[1] \in Conns /\ t[2] \in 1..conn[t[1]].nrd
                  /\ StreamOfConn(t[1]) = back[b].stream
    /\ \A c \in Conns :
          /\ InOrderOnce(conn[c].out)
          /\ \A i \in 1..Len(conn[c].out) :
                LET t == conn[c].out[i] IN
                  /\ t[1] \in Backs /\ t[2] \in 1..back[t[1]].nrd
                  /\ back[t[1]].stream = StreamOfConn(c)

C7_Witness ==
    \E b \in Backs : \E c \in Conns : back[b].out = <<<<c, 1>>, <<c, 2>>>>

\* C14: the registration handle is held for as long as the session's accept
\* loop is running, and is dropped exactly once, at session end, in the step
\* that leaves the Clients table cleared.
C14_HandleHeldUntilCleared ==
    /\ [](lpc \in {"select", "insert", "clear"} => handle = "held")
    /\ [][handle' # handle =>
            /\ handle = "held" /\ handle' = "dropped"
            /\ lpc' = "done" /\ gpc' = "closed"
            /\ \A s \in Streams : clients'[s] = 0]_vars

C14_Witness ==
    /\ handle = "dropped" /\ link = "up" /\ ~exited
    /\ Sum(conn, Conns) = 0
    /\ \E c \in Conns : pump[c].abort /\ pump[c].ended = "no"

OpenConns == {c \in Conns : conn[c].rd \/ conn[c].wr}

\* C15: in every reachable state the Clients table has no more entries than
\* there are public connections the gateway holds open.
C15_EntriesWithinOpenConnections ==
    Cardinality({s \in Streams : clients[s] # 0}) <= Cardinality(OpenConns)

C15_Witness ==
    /\ Cardinality({s \in Streams : clients[s] # 0}) = 1
    /\ Cardinality(OpenConns) = 2

\* the demux takes the frame at the head of the agent channel
DemuxTakes(k) ==
    /\ dpc = "read" /\ a2g # <<>> /\ Head(a2g).kind = k /\ a2g' = Tail(a2g)

\* C16: when the gateway demux receives a Payload for a stream that has no
\* Clients entry, it drops the payload: the Clients table, every public-client
\* socket and the pumps are unchanged, no frame is sent to the agent, and the
\* demux goes on to the next message.
C16_PayloadWithoutEntryDropped ==
    [][(DemuxTakes(KindPayload) /\ Lookup(clients, Head(a2g).id) = 0)
         => /\ UNCHANGED <<clients, conn, pump, g2a, wire, exited, lpc>>
            /\ dpc' = "read" /\ dmsg' = dmsg]_vars

\* a backend's reply came for a stream whose public connection was already
\* gone: it was read and dropped, and no public client was written to
C16_Witness ==
    /\ link = "up" /\ dpc = "read" /\ ~exited /\ a2g = <<>>
    /\ \A s \in Streams : clients[s] = 0
    /\ \A c \in Conns : conn[c].out = <<>> /\ ~conn[c].werr
    /\ \E b \in Backs : back[b].nrd = 1 /\ bpump[b].pc = "read" /\ ~bpump[b].abort

\* the agent takes the frame at the head of the gateway channel
AgentTakes(k) ==
    /\ alpc = "read" /\ g2a # <<>> /\ Head(g2a).kind = k /\ g2a' = Tail(g2a)

PayloadForNewStream ==
    /\ AgentTakes(KindPayload)
    /\ Head(g2a).id \in Streams /\ backends[Head(g2a).id] = 0

\* no connection was made: Close{stream} goes to the gateway, the Backends
\* table is unchanged and the loop goes on
ConnectFailureHandled ==
    /\ UNCHANGED <<backends, back, bpump>>
    /\ link = "up" => /\ a2g' = Append(a2g, ControlFrame(MClose(Head(g2a).id)))
                      /\ alpc' = "read"

\* exactly one backend connection b was made for the stream, with a pump
OneNewBackend(b) ==
    /\ back[b].phase = "new" /\ back'[b].stream = Head(g2a).id
    /\ \A d \in Backs \ {b} : back'[d] = back[d] /\ bpump'[d] = bpump[d]
    /\ \A s \in Streams \ {Head(g2a).id} : backends'[s] = backends[s]

\* the entry is installed under the stream and the data written to b
InstalledAndWritten(b) ==
    /\ backends'[Head(g2a).id] = b
    /\ back'[b].out = <<Head(g2a).payload>> /\ back'[b].wr /\ ~back'[b].werr
    /\ bpump'[b].pc = "read" /\ ~bpump'[b].abort
    /\ UNCHANGED <<a2g, alpc>>

\* the write to b failed: the write-error rule applies to the new entry, which
\* is removed again (its pump aborted) with Close{stream} sent to the gateway
FirstWriteFailed(b) ==
    /\ back'[b].out = <<>> /\ back'[b].werr
    /\ link = "up" => /\ backends'[Head(g2a).id] = 0
                      /\ ~back'[b].wr /\ bpump'[b].pc = "read" /\ bpump'[b].abort
                      /\ a2g' = Append(a2g, ControlFrame(MClose(Head(g2a).id)))
                      /\ alpc' = "read"

\* C17 as stated: a Payload for a stream without a Backends entry makes the
\* agent connect; on failure Close{stream} is sent, the table is unchanged and
\* the loop goes on; on success exactly one entry with a spawned pump is
\* installed under the stream and the data is written to the new connection.
C17_AsClaimed ==
    [][PayloadForNewStream =>
         IF back' = back THEN ConnectFailureHandled
         ELSE \E b \in Backs : OneNewBackend(b) /\ InstalledAndWritten(b)]_vars

\* C17: as stated, except that the write to the new connection can fail: then
\* the new entry is removed again, its pump aborted, and Close{stream} sent.
C17_ConnectOnUnknownStream ==
    [][PayloadForNewStream =>
         IF back' = back THEN ConnectFailureHandled
         ELSE \E b \in Backs :
                /\ OneNewBackend(b)
                /\ InstalledAndWritten(b) \/ FirstWriteFailed(b)]_vars

\* a stream that was closed got a payload again and has its second backend
C17_Witness ==
    /\ link = "up" /\ alpc = "read"
    /\ back[1].phase # "new" /\ back[2].phase = "up"
    /\ back[2].stream = back[1].stream /\ backends[back[2].stream] = 2
    /\ back[2].out # <<>> /\ bpump[2].pc = "read"

\* C18: when the agent processes Close{stream} from the gateway, the stream
\* has no Backends entry afterwards, its backend write half is closed and its
\* pump is aborted; and from then on that pump sends no Payload{stream} and no
\* Close{stream} frame to the gateway.
C18_ClosedPumpSilent ==
    /\ [][AgentTakes(KindClose) =>
            LET id == Head(g2a).id
                b == Lookup(backends, id)
            IN  /\ Lookup(backends', id) = 0
                /\ b # 0 => /\ ~back'[b].wr /\ back'[b].gclosed
                            /\ Alive(bpump[b]) => bpump'[b].abort]_vars
    /\ [][\A b \in Backs :
            (back[b].gclosed /\ bpump'[b] # bpump[b]) => a2g' = a2g]_vars

(***************************************************************************)
(* Claims about the server                                                 *)
(***************************************************************************)
\* session i fails or ends in this step, at whatever stage it is
SessionOver(i) == sessions[i].stage \notin {"none", "closed"}
                  /\ sessions'[i].stage = "closed"

\* C19: a gateway session that fails or ends, at any stage, changes no state
\* of any other session (Clients table, agent channel, registration handle)
\* and leaves the accept loop of the server as it was, accepting further
\* agents.
C19_SessionsIndependent ==
    [][\A i \in Sessions :
         SessionOver(i) => /\ \A j \in Sessions \ {i} : sessions'[j] = sessions[j]
                           /\ listener' = listener]_vars

\* session 1 failed while session 2 was there, which still serves a client
\* and holds its handle; session 3 was accepted after the failure
C19_Witness ==
    /\ listener = "listening"
    /\ sessions[1].stage = "closed" /\ sessions[1].res = "err" /\ sessions[1].logged
    /\ sessions[2].stage = "serving" /\ sessions[2].closedAtSpawn = 0
    /\ sessions[2].table # {} /\ sessions[2].handle = "held" /\ sessions[2].chan = "up"
    /\ sessions[3].stage # "none" /\ sessions[3].closedAtSpawn = 1

(***************************************************************************)
(* Claims about the framing codec                                          *)
(***************************************************************************)
\* C20: after the handshake, the messages returned by successive read()
\* calls of one peer are the messages written with write()/control() by the
\* other peer: same order, kinds, ids and payloads, none lost, none added
\* (what was read is the beginning of what was written, and all of it once
\* the transport is drained).
C20_ReadEqualsWritten ==
    /\ cerr = "none"
    /\ Len(cgot) <= Len(cwrote)
    /\ \A i \in 1..Len(cgot) : cgot[i] = cwrote[i]
    /\ cwire = <<>> => cgot = cwrote

\* the number of payload bytes of a message
PayloadLen(m) ==
    CASE m.type = "Error" -> m.msg.len
      [] m.type = "Login" -> m.token.len
      [] m.type = "Register" -> m.name.len
      [] m.type = "Payload" -> m.data.len
      [] OTHER -> 0

\* the first i messages written have payloads of at most 65,535 bytes
WithinFrame(i) ==
    \A j \in 1..i : j <= Len(cwrote) => PayloadLen(cwrote[j]) <= MAX_PAYLOAD_SIZE

\* C21: every Message (of every kind, Terminate included) whose payload is at
\* most 65,535 bytes, the empty payload included, is decoded by read() as an
\* equal Message after it was encoded to a frame.
C21_RoundTrip ==
    /\ \A i \in 1..Len(cgot) :
          WithinFrame(i) => i <= Len(cwrote) /\ cgot[i] = cwrote[i]
    /\ WithinFrame(Len(cwrote)) =>
          /\ cerr = "none"
          /\ cwire = <<>> => cgot = cwrote

\* a payload of 65,535 bytes and an empty string have made the round trip
C21_Witness ==
    /\ Len(cgot) = 2 /\ cgot = cwrote /\ cwire = <<>>
    /\ cgot[1].type = "Payload" /\ cgot[1].data.len = MAX_PAYLOAD_SIZE
    /\ cgot[2].type = "Login" /\ cgot[2].token.len = 0

(***************************************************************************)
(* Claims about the decoder in the session                                 *)
(***************************************************************************)
\* the gateway's read() takes a frame whose kind byte is not in 0..7
ReadsInvalidKind ==
    /\ gpc \in {"login", "registering"}
    /\ a2g # <<>> /\ ~ValidKind(Head(a2g).kind) /\ a2g' = Tail(a2g)

\* no Message came out of the read: nothing is recorded and nothing answered
NoMessageProduced ==
    UNCHANGED <<token, user, registrations, authLog, authzLog, unexpected, g2a, gsent>>

\* C22: a frame whose kind byte is not in 0..=7 makes the decoder fail with
\* InvalidHeader: no Message is produced for it, and the error is fatal to the
\* reader: the session returns, or leaves the loop to return, and nothing
\* reads the channel again.
C22_InvalidKindFatal ==
    [][ReadsInvalidKind =>
         /\ NoMessageProduced
         /\ \/ gpc' = "closed" /\ gres' = "InvalidHeader"
            \/ gpc' = "finish" /\ loopExit' = "readerr" /\ registrations = <<>>]_vars

Min(a, b) == IF a < b THEN a ELSE b

\* what one Payload frame with the first c bytes of the k-th message's data
\* is on the transport
OnePayloadFrame(id, k, c) ==
    <<[hdr |-> TRUE, kind |-> KindPayload, id |-> id, size |-> c]>>
    \o (IF c = 0 THEN <<>> ELSE <<[hdr |-> FALSE, src |-> k, from |-> 1, len |-> c]>>)

\* C23: write(stream, data) emits exactly one Payload frame that carries the
\* first min(len(data), 65535) bytes of data, with the stream id in the
\* header's id and that count in its size field, and returns that count.
C23_WriteOneClampedFrame ==
    [][\A id \in StreamIds, n \in Lens :
         CodecWrite(id, n) =>
           LET k == Len(cwrote) + 1
               c == Min(n, MAX_PAYLOAD_SIZE)
           IN /\ cwire' = cwire \o OnePayloadFrame(id, k, c)
              /\ WriteReturn(Bytes(k, 1, n)) = c
              /\ cwrote' = Append(cwrote, MPayload(id, Bytes(k, 1, c)))]_vars

\* a write of at least 65,535 bytes, after another message, put one full frame
\* on the transport
C23_Witness ==
    /\ Len(cwrote) = 2 /\ cgot = <<>> /\ cwrote[1].type = "Ok"
    /\ cwrote[2] = MPayload(U16 + 1, Bytes(2, 1, MAX_PAYLOAD_SIZE))
    /\ Len(cwire) = 3 /\ cwire[2].size = MAX_PAYLOAD_SIZE
    /\ cwire[3].len = MAX_PAYLOAD_SIZE

(***************************************************************************)
(* Claims about the handshake                                              *)
(***************************************************************************)
\* the error a received handshake must be refused with ("none": accepted)
Refusal(h) ==
    CASE h.magic # MAGIC -> "InvalidMagic"
      [] h.magic = MAGIC /\ h.version # VERSION -> "InvalidVersion"
      [] h.magic = MAGIC /\ h.version = VERSION /\ h.key # "valid" -> "Encryption"
      [] OTHER -> "none"

\* the server reads the client's handshake in this step
ServerReadsHandshake == gpc = "handshake" /\ a2g # <<>> /\ a2g' = Tail(a2g)

\* the client reads the server's handshake in this step
ClientReadsHandshake == apc = "hs_read" /\ g2a # <<>> /\ g2a' = Tail(g2a)

\* C24: a received handshake is accepted only with the magic 0x6469676C, the
\* version 1 and a key that is a valid curve point; otherwise the receiver
\* fails with InvalidMagic, InvalidVersion or Encryption and has no
\* Connection.  The client sends its handshake before it reads, and the
\* server sends its own only after the client's has passed the checks.
C24_HandshakeChecked ==
    /\ [][ServerReadsHandshake =>
            LET e == Refusal(Head(a2g)) IN
            IF e # "none"
            THEN gpc' = "closed" /\ gres' = e /\ g2a' = g2a
            ELSE \/ gpc' = "login" /\ g2a' = Append(g2a, OwnHandshake)
                 \/ gpc' = "closed" /\ gres' = "IO" /\ g2a' = g2a]_vars
    /\ [][ClientReadsHandshake =>
            LET e == Refusal(Head(g2a)) IN
            IF e # "none" THEN apc' = "failed" /\ ares' = e
            ELSE apc' = "login_send"]_vars
    /\ [](gpc = "handshake" => g2a = <<>> /\ gsent = <<>>)
    /\ [](peer = "agent" /\ apc = "hs_send" => nsent = 0 /\ a2g = <<>>)
    /\ [](peer = "agent" /\ apc = "hs_read" => nsent = 1)
    /\ [][g2a' # g2a /\ Len(g2a') < Len(g2a) => apc # "hs_send"]_vars

\* a handshake with the right magic and version and a key that is no curve
\* point was refused, and the server has sent nothing
C24_Witness ==
    /\ peer = "rogue" /\ gpc = "closed" /\ gres = "Encryption"
    /\ g2a = <<>> /\ gsent = <<>> /\ nsent = 1

(***************************************************************************)
(* Claims about the encrypted transport                                    *)
(***************************************************************************)
\* the keystream position p encrypts at, and the one it decrypts at
WriterPos(p) == enc[p][WriteCipher(enc[p])]
ReaderPos(p) == enc[p][ReadCipher(enc[p])]

\* every frame p has written has been read whole by the other end, and both
\* ends are on the same side of the split
Settled(p) ==
    LET q == Other(p) IN
    /\ tx[p] = <<>> /\ net[q] = 0 /\ rx[q] = NoRead /\ frames[q] = <<>>
    /\ enc[p].st # "raw" /\ enc[p].st = enc[q].st

\* the positions of a settled direction are equal; before the split, where
\* an end has one cipher for both directions, once both directions are settled
PositionsEqual ==
    \A p \in Peers :
      Settled(p) /\ (enc[p].st = "whole" => Settled(Other(p)))
        => WriterPos(p) = ReaderPos(Other(p))

\* on a split end a write moves no reading position, a read no writing one
DirectionsIndependent ==
    \A p \in Peers :
      enc[p].st = "split" =>
        /\ net'[Other(p)] > net[Other(p)] => ReaderPos(p)' = ReaderPos(p)
        /\ net'[p] < net[p] => WriterPos(p)' = WriterPos(p)

\* C25: after any number of successful frame writes and reads on an
\* encrypted connection, before and after its split, the writer's keystream
\* position on one peer equals the reader's on the other peer in each
\* direction, and the two directions use independent cipher states.
C25_KeystreamsInStep == []PositionsEqual /\ [][DirectionsIndependent]_vars

\* both ends have derived their shared secret
BothNegotiated == \A p \in Peers : enc[p].st # "raw"

\* C26: key agreement is symmetric: for any two keypairs a and b,
\* shared(a_priv, b_pub) equals shared(b_priv, a_pub), so after a successful
\* handshake both peers hold the same secret.
C26_SharedSymmetric ==
    /\ \A a, b \in PrivateKeys :
         shared(a, PublicKey(b)) = shared(b, PublicKey(a))
    /\ BothNegotiated =>
         /\ secret["agent"] = secret["gateway"]
         /\ secret["agent"] # NoSecret

\* two ends with different keypairs have finished the handshake
C26_Witness ==
    /\ BothNegotiated
    /\ keypair["agent"] = 2 /\ keypair["gateway"] = CurveOrder - 2
    /\ secret["gateway"] = Sha512((2 * (CurveOrder - 2)) % CurveOrder)

(***************************************************************************)
(* Claims about stream ids                                                 *)
(***************************************************************************)
\* the streams built by Stream::new
Built == {e \in streams : e.via = "new"}

\* C27: Stream::new(r, p) puts r in the high 16 bits and p in the low 16
\* bits of the 32-bit id, so registration() = r and port() = p for all 16-bit
\* r and p; Stream(0x11223344) has registration 0x1122 and port 0x3344; and
\* two distinct (r, p) pairs never give equal streams.
C27_StreamPacksRegistrationAndPort ==
    /\ \A e \in Built :
         /\ e.id >= 0 /\ e.id \div 65536 < 65536
         /\ e.id \div 65536 = e.r /\ e.id % 65536 = e.p
         /\ e.registration = e.r /\ e.port = e.p
    /\ \A e \in streams :
         e.id = 287454020 => e.registration = 4386 /\ e.port = 13124
    /\ \A e, f \in Built : e.id = f.id => e.r = f.r /\ e.p = f.p

\* Stream::new(0x1122, 0x3344) and Stream::new(0x7FFF, 0xFFFF) have been built
C27_Witness ==
    /\ \E e \in Built : e.r = 4386 /\ e.p = 13124 /\ e.id = 287454020
    /\ \E e \in Built : e.r = 32767 /\ e.p = 65535 /\ e.id = 2147483647

(***************************************************************************)
(* Claims about stream ids in the tables                                   *)
(***************************************************************************)
\* the public connections whose data a backend connection has been sent
Origins(b) == {back[b].out[i][1] : i \in 1..Len(back[b].out)}

\* the demux takes a Close for a stream whose entry belongs to a public
\* client of which nothing has been read yet: no backend connection has
\* served it, so the Close was sent for an earlier holder of the stream id
CloseOfEarlierIncarnation ==
    /\ DemuxTakes(KindClose)
    /\ Lookup(clients, Head(a2g).id) # 0
    /\ conn[Lookup(clients, Head(a2g).id)].nrd = 0

\* C28: a Close{stream} from the agent removes only the public connection the
\* closing backend connection was serving: a Close sent for an earlier holder
\* of the stream id neither removes nor aborts the entry of a new client
\* accepted with the same source port, and data of the new client is not
\* delivered to the earlier holder's backend connection.
C28_CloseHitsOwnIncarnation ==
    /\ [][CloseOfEarlierIncarnation => UNCHANGED <<clients, conn, pump>>]_vars
    /\ [](\A b \in Backs : Cardinality(Origins(b)) <= 1)

\* the pump of connection c removes the entry of its stream
PumpRemoves(c) == pump[c].pc = "remove" /\ pump'[c].pc = "close"

\* the connection whose pump has been spawned and whose entry is not inserted yet
Uninserted(c) == lpc = "insert" /\ c = Pending

\* C29: on accept the gateway holds the Clients lock from before the pump is
\* spawned until the entry is inserted, so neither the demux nor the new pump
\* sees the table without the entry: a Payload the agent sends in reply to
\* data forwarded by the pump finds the stream's entry unless it was removed
\* since (the write half of the connection is dropped with the entry), and
\* the pump's removal on exit never runs before the insertion.
C29_InsertedBeforeObserved ==
    /\ [][DemuxTakes(KindPayload) =>
            \A c \in Conns :
              conn[c].wr /\ StreamOfConn(c) = Head(a2g).id
                => Lookup(clients, Head(a2g).id) = c]_vars
    /\ [][\A c \in Conns : PumpRemoves(c) => ~Uninserted(c)]_vars
    /\ [][lpc = "insert" =>
            \/ clients' = clients
            \/ /\ lpc' = "select"
               /\ clients' = [clients EXCEPT ![StreamOfConn(Pending)] = Pending]]_vars

\* the pump of a connection that is not inserted yet has forwarded data and
\* the agent's reply is waiting for the demux
C29_Witness ==
    /\ lpc = "insert" /\ dpc = "read"
    /\ clients[StreamOfConn(Pending)] = 0
    /\ a2g # <<>> /\ Head(a2g).kind = KindPayload
    /\ Head(a2g).id = StreamOfConn(Pending)

\* the channel q grows by a Payload frame in this step
EmitsPayload(q) ==
    /\ Len(q') = Len(q) + 1
    /\ q'[Len(q')].kind = KindPayload

\* every stream in a table has a spawned pump
PresentHasPump ==
    \A s \in Streams :
      /\ clients[s] # 0 => pump[clients[s]].pc # "none"
      /\ backends[s] # 0 => bpump[backends[s]].pc # "none"

\* a Payload is emitted only for a stream that is in the table of the end
\* that emits it (on the gateway: or is being inserted under the lock)
AbsentEmitsNothing ==
    /\ EmitsPayload(g2a) =>
         \/ Lookup(clients, g2a'[Len(g2a')].id) # 0
         \/ lpc = "insert"
    /\ EmitsPayload(a2g) => Lookup(backends, a2g'[Len(a2g')].id) # 0

\* C30: for the Clients table and the Backends table, in every state outside
\* the table's critical section, a stream present in the table has a spawned
\* pump, and for a stream absent from the table no pump forwards data: the
\* pump of a removed entry has finished or is aborted and emits no further
\* Payload frame.
C30_TableMatchesPumps == []PresentHasPump /\ [][AbsentEmitsNothing]_vars

(***************************************************************************)
(* Claims about the end of an agent pump                                   *)
(***************************************************************************)
\* the pump of backend connection b writes its Close (it ended, lines 149-157)
ExitCloses(b) == bpump[b].pc = "close" /\ bpump'[b].pc = "remove"

\* the pump of backend connection b removes the entry of its stream (line 160)
ExitRemoves(b) == bpump[b].pc = "remove" /\ bpump'[b].pc = "done"

\* the pump sends Close{stream} unless the write fails, before it removes
CloseThenRemove ==
    \A b \in Backs :
       /\ ExitCloses(b) =>
             /\ bpump[b].ended # "no"
             /\ \/ a2g' = Append(a2g, ControlFrame(MClose(back[b].stream)))
                \/ a2g' = a2g /\ link = "down"
       /\ ExitRemoves(b) => Lookup(backends', back[b].stream) = 0

\* of a removal by a received Close and a removal by the pump's exit, the one
\* that finds no entry changes nothing
SecondIsNoOp ==
    /\ \A b \in Backs :
          (ExitRemoves(b) /\ Lookup(backends, back[b].stream) = 0)
          => /\ UNCHANGED <<backends, back>>
             /\ \A d \in Backs \ {b} : bpump'[d] = bpump[d]
    /\ (AgentTakes(KindClose) /\ Lookup(backends, Head(g2a).id) = 0)
          => UNCHANGED <<backends, back, bpump>>

\* the entry a pump removes on its exit is its own
ExitRemovesOwn ==
    \A b \in Backs :
       ExitRemoves(b) => Lookup(backends, back[b].stream) \in {0, b}

\* C31: when an agent pump ends it sends Close{stream} to the gateway and
\* then removes the stream's Backends entry; of the removal by a received
\* Close and the removal by the pump's exit the second is a no-op, and the
\* pump's removal does not remove an entry created later for its stream id.
C31_ExitClosesAndRemovesOwn ==
    /\ [][CloseThenRemove]_vars
    /\ [][SecondIsNoOp]_vars
    /\ [][ExitRemovesOwn]_vars

(***************************************************************************)
(* Claims about the mutexes                                                *)
(***************************************************************************)
\* task t waits for mutex m
Waits(t, m) == \E i \in 1..Len(waitq[m]) : waitq[m][i] = t

\* two tasks each wait for a mutex the other holds, or a task waits for a
\* mutex it holds itself
WaitCycle ==
    \E t1, t2 \in Tasks, m1, m2 \in Mutexes :
       /\ Waits(t1, m1) /\ holder[m1] = t2
       /\ Waits(t2, m2) /\ holder[m2] = t1

\* a pump waits for the table mutex while it holds the writer mutex
PumpNests == \E p \in LockPumpIds : Waits(p, "table") /\ holder["writer"] = p

\* the only task that asks for one mutex while it holds the other is the
\* agent's serve loop, which asks for the writer holding Backends
OnlyServeNests ==
    \A t \in Tasks, m, n \in Mutexes :
       (Waits(t, m) /\ holder[n] = t)
       => (side = "agent" /\ t = TLoop /\ m = "writer" /\ n = "table")

\* C32: on either endpoint no task waits for the table mutex or the writer
\* mutex in a cycle: the agent's serve loop asks for the writer while it
\* holds Backends, no pump waits for the table while it holds the writer,
\* and every lock request is eventually granted (or withdrawn, when the
\* waiting task is aborted), the socket operations under a guard completing.
C32_NoLockCycle ==
    /\ [](~WaitCycle /\ ~PumpNests /\ OnlyServeNests)
    /\ \A t \in Tasks, m \in Mutexes :
          Waits(t, m) ~> (holder[m] = t \/ tpc[t] = "dead")

C32_Witness ==
    /\ side = "agent"
    /\ holder["table"] = TLoop /\ Waits(TLoop, "writer")
    /\ \E p \in LockPumpIds : holder["writer"] = p /\ tpc[p] = "close"
    /\ \E p \in LockPumpIds : Waits(p, "table")

(***************************************************************************)
(* Claims about the keystream positions of the encrypted transport         *)
(***************************************************************************)
\* the bytes the transport delivers to p in this step
Delivered(p) == net[p] - net'[p]

\* the position of the cipher that decrypts what p reads
ReadPos(e) == e[ReadCipher(e)]

\* C33: a transport read that delivers k new bytes to the encrypted reader
\* advances its keystream by exactly k (it decrypts those k bytes, once), also
\* when an exact-length read is satisfied by several partial reads.
C33_ReadAdvancesByDelivered ==
    [][\A p \in Peers :
          Delivered(p) > 0 => ReadPos(enc'[p]) = ReadPos(enc[p]) + Delivered(p)]_vars

\* the bytes the transport accepts from p in this step
Accepted(p) == net'[Other(p)] - net[Other(p)]

\* the position of the cipher that encrypts what p writes
WritePos(e) == e[WriteCipher(e)]

\* a step of p's writer, or of no concern to p's ciphers: p neither reads
\* nor splits in it
NoReadNoSplit(p) == net'[p] = net[p] /\ enc'[p].st = enc[p].st /\ enc[p].st # "raw"

\* C34: a transport write that accepts n of the m bytes offered to the
\* encrypted writer leaves its keystream advanced by exactly n, and a pending
\* result leaves it where it was: the bytes still to be written are encrypted
\* from the position right after the bytes accepted.
C34_WriteAdvancesByAccepted ==
    [][\A p \in Peers :
          (NoReadNoSplit(p) /\ Accepted(p) >= 0)
          => WritePos(enc'[p]) = WritePos(enc[p]) + Accepted(p)]_vars

C34_Witness ==
    \E p \in Peers :
       /\ enc[p].st = "split" /\ Len(tx[p]) = 2 /\ Head(tx[p]) = 3
       /\ enc[p].wcipher = FRAME_HEADER_SIZE - 3

(***************************************************************************)
(* Claims about the size field                                             *)
(***************************************************************************)
\* what the message written in this step put on the transport
Appended == SubSeq(cwire', Len(cwire) + 1, Len(cwire'))

\* C35: every frame put on the wire has a size field equal to the number of
\* payload bytes that follow its header, for control messages as for
\* payloads, whatever the length of the string of an Error, a Register or a
\* Login.
C35_SizeFieldCountsPayload ==
    [][Len(cwrote') > Len(cwrote) =>
          /\ Appended # <<>> /\ Appended[1].hdr
          /\ Appended[1].size = (IF Len(Appended) > 1 THEN Appended[2].len ELSE 0)]_vars


(***************************************************************************)
(* Claims about the messages the gateway demux does not route              *)
(***************************************************************************)
\* the kinds of the messages that are neither Payload, Close nor Terminate
OtherKinds == {KindOk, KindError, KindRegister, KindFinishRegister, KindLogin}

DemuxTakesOther == \E k \in OtherKinds : DemuxTakes(k)

\* C36: in SERVING the gateway demux reacts to Terminate by signalling the
\* end of the session and exiting; a message other than Payload, Close and
\* Terminate (Ok, Error, Register, FinishRegister, Login) is ignored: the
\* Clients table, the public connections and their pumps, the recorded
\* registration, the listener, the handle and the state of the session are
\* unchanged, nothing is sent to the agent, the message is only logged, and
\* the demux goes on reading.
C36_TerminateEndsOthersIgnored ==
    [][/\ DemuxTakes(KindTerminate) =>
            /\ dpc' = "done" /\ exited' = TRUE
            /\ UNCHANGED <<clients, conn, pump, registrations, dlog>>
       /\ DemuxTakesOther =>
            /\ UNCHANGED <<clients, conn, pump, registrations, bound, handle, gpc,
                           gres, lpc, exited, dmsg, g2a, gsent>>
            /\ dlog' = Append(dlog, FrameMessage(Head(a2g)).type)
            /\ dpc' = "read"]_vars

\* with a public connection in the table the peer sent Login and then
\* Terminate: the Login was logged and left the session serving, the
\* Terminate ended the demux over a connection that is still up
C36_Witness ==
    /\ link = "up" /\ nsent = 4 + MaxNoise /\ a2g = <<>>
    /\ dlog = <<"Login">>
    /\ dpc = "done" /\ exited
    /\ gpc = "serving" /\ lpc = "select"
    /\ \E s \in Streams : clients[s] # 0 /\ pump[clients[s]].pc = "read"

====
